---------------------------- MODULE Spec2Model ----------------------------
(***************************************************************************)
(* Transcript reconstruction of cr_miraheze_scripts                        *)
(* (src/cr_modules/transcript.py).                                         *)
(*                                                                         *)
(* Text is modelled as a sequence of tokens.  A token is a word, a phrase  *)
(* or a marker of the Python string it stands for; the token NL is the     *)
(* newline character and tokens of one line are separated by one blank,    *)
(* except that a quote character stands next to the word it encloses.      *)
(* Substring tests, startswith, splitlines, join and str.replace are       *)
(* computed on these sequences the way Python computes them on characters. *)
(***************************************************************************)
EXTENDS Naturals, Sequences, FiniteSets

VARIABLES
    bf_transcript,      \* Breakfinder.transcript
    bf_prefix,          \* Breakfinder.ep.prefix
    break_found,        \* Breakfinder.break_found
    revised_transcript, \* Breakfinder.revised_transcript
    bf_pc,              \* position inside Breakfinder.__post_init__
    caption_lines,      \* the (line, starttime) pairs given to flag_duplicate_captions
    preprocessed_captions, \* the list flag_duplicate_captions returns
    dupe_lines,         \* YoutubeTranscript.dupe_lines[language]
    dd_run,             \* how many times flag_duplicate_captions has run
    sc_lines,           \* the preprocessed_captions given to combine_preprocessed_captions
    sc_language,        \* its language argument
    line_index,         \* the loop index i, counted from 1
    during_intro,       \* local during_intro
    intro_done,         \* local intro_done
    active_quote,       \* local active_quote
    fixed_lines,        \* local fixed_lines
    line_in_progress,   \* local line_in_progress
    sc_transcript,      \* the transcript combine_preprocessed_captions returns
    sc_pc,              \* position inside combine_preprocessed_captions
    captions,           \* YoutubeTranscript.captions_dict[language]
    language,           \* the language argument of process_transcript
    ep_prefix,          \* YoutubeTranscript.ep.prefix
    ignore_break,       \* YoutubeTranscript.ignore_break
    ts,                 \* local ts of process_transcript
    pt_dupe_lines,      \* YoutubeTranscript.dupe_lines[language] of the build
    pt_pc,              \* position inside process_transcript
    ls_captions,        \* the captions given to divide_captions_by_speaker
    ls_index,           \* its loop index i, counted from 1
    ls_caption_lines,   \* its local caption_lines
    ls_pc,              \* position inside divide_captions_by_speaker
    yt_manual,          \* the manually created caption track of the video
    yt_generated,       \* the generated caption track of the video
    json_file,          \* the cached caption file of the language
    try_local_file,     \* YoutubeTranscript.try_local_file
    force_redownload,   \* YoutubeTranscript.force_redownload
    write_ts_file,      \* YoutubeTranscript.write_ts_file
    db_language,        \* the language argument of download_and_build_transcript
    has_captions_dict,  \* hasattr(self, 'captions_dict')
    captions_dict,      \* YoutubeTranscript.captions_dict[language]
    transcript_dict,    \* YoutubeTranscript.transcript_dict[language]
    db_dupe_lines,      \* YoutubeTranscript.dupe_lines[language] across the calls
    local_captions,     \* local captions of download_and_build_transcript
    db_reported,        \* the missing track was reported with pywikibot.output
    db_stored,          \* the transcript stored by each call that returned
    db_calls,           \* how many times download_and_build_transcript was called
    db_pc,              \* position inside download_and_build_transcript
    rv_transcript,      \* t.transcript
    rv_dupe_lines,      \* t.dupe_lines
    rv_index,           \* position of the loop over t.dupe_lines, counted from 1
    line_pairs,         \* local line_pairs
    rv_pc,              \* position inside process_duplicates
    rv_run,             \* how many times process_duplicates was started
    rv_start,           \* t.transcript when the current run started
    rv_decided,         \* the decisions of the current run: mark index and answer
    rv_prompted,        \* the indices of the marks shown in the current run
    rv_cancelled,       \* the current run was ended by QuitKeyboardInterrupt
    rv_first,           \* what the first run decided and what it left behind
    rv_saved,           \* the current run wrote its changes to t.transcript
    rv_page,            \* the text put_current saved after the current run
    ng_line,            \* the line of the transcript flag_duplicates works on, as words
    dupe_ngrams,        \* the repeated n-grams not yet looked at
    longest_ngrams,     \* local longest_ngrams
    new_line,           \* local new_line
    ng_pc               \* position inside flag_duplicates

bfVars == <<bf_transcript, bf_prefix, break_found, revised_transcript, bf_pc>>

ddVars == <<caption_lines, preprocessed_captions, dupe_lines, dd_run>>

scVars ==
    <<sc_lines, sc_language, line_index, during_intro, intro_done,
      active_quote, fixed_lines, line_in_progress, sc_transcript, sc_pc>>

ptVars ==
    <<captions, language, ep_prefix, ignore_break, ts, pt_dupe_lines, pt_pc>>

lsVars == <<ls_captions, ls_index, ls_caption_lines, ls_pc>>

dbVars ==
    <<yt_manual, yt_generated, json_file, try_local_file, force_redownload,
      write_ts_file, db_language, has_captions_dict, captions_dict,
      transcript_dict, db_dupe_lines, local_captions, db_reported, db_stored,
      db_calls, db_pc>>

rvVars ==
    <<rv_transcript, rv_dupe_lines, rv_index, line_pairs, rv_pc, rv_run,
      rv_start, rv_decided, rv_prompted, rv_cancelled, rv_first, rv_saved,
      rv_page>>

ngVars ==
    <<ng_line, dupe_ngrams, longest_ngrams, new_line, ng_pc>>

vars == <<bfVars, ddVars, scVars, ptVars, lsVars, dbVars, rvVars, ngVars>>

\* what the steps of one component leave alone
bfRest == <<ddVars, scVars, ptVars, lsVars, dbVars, rvVars, ngVars>>

ddRest == <<bfVars, scVars, ptVars, lsVars, dbVars, rvVars, ngVars>>

scRest == <<bfVars, ddVars, ptVars, lsVars, dbVars, rvVars, ngVars>>

ptRest == <<bfVars, ddVars, scVars, lsVars, dbVars, rvVars, ngVars>>

lsRest == <<bfVars, ddVars, scVars, ptVars, dbVars, rvVars, ngVars>>

dbRest == <<bfVars, ddVars, scVars, ptVars, lsVars, rvVars, ngVars>>

rvRest == <<bfVars, ddVars, scVars, ptVars, lsVars, dbVars, ngVars>>

ngRest == <<bfVars, ddVars, scVars, ptVars, lsVars, dbVars, rvVars>>

\* Breakfinder is not running
BfIdle ==
    /\ bf_transcript = <<>>
    /\ bf_prefix = "3"
    /\ break_found = FALSE
    /\ revised_transcript = <<>>
    /\ bf_pc = "idle"

\* the duplicate detector is not running
DdIdle ==
    /\ caption_lines = <<>>
    /\ preprocessed_captions = <<>>
    /\ dupe_lines = <<>>
    /\ dd_run = 0

\* combine_preprocessed_captions is not running
ScIdle ==
    /\ sc_lines = <<>>
    /\ sc_language = "en"
    /\ line_index = 1
    /\ during_intro = FALSE
    /\ intro_done = FALSE
    /\ active_quote = FALSE
    /\ fixed_lines = <<>>
    /\ line_in_progress = <<>>
    /\ sc_transcript = <<>>
    /\ sc_pc = "idle"

\* process_transcript is not running
PtIdle ==
    /\ captions = <<>>
    /\ language = "en"
    /\ ep_prefix = "3"
    /\ ignore_break = FALSE
    /\ ts = <<>>
    /\ pt_dupe_lines = <<>>
    /\ pt_pc = "idle"

\* divide_captions_by_speaker is not running
LsIdle ==
    /\ ls_captions = <<>>
    /\ ls_index = 1
    /\ ls_caption_lines = <<>>
    /\ ls_pc = "idle"

\* download_and_build_transcript is not running
DbIdle ==
    /\ yt_manual = [found |-> FALSE, value |-> <<>>]
    /\ yt_generated = [found |-> FALSE, value |-> <<>>]
    /\ json_file = [found |-> FALSE, value |-> <<>>]
    /\ try_local_file = TRUE
    /\ force_redownload = FALSE
    /\ write_ts_file = FALSE
    /\ db_language = "en"
    /\ has_captions_dict = FALSE
    /\ captions_dict = [found |-> FALSE, value |-> <<>>]
    /\ transcript_dict = [found |-> FALSE, value |-> <<>>]
    /\ db_dupe_lines = <<>>
    /\ local_captions = [found |-> FALSE, value |-> <<>>]
    /\ db_reported = FALSE
    /\ db_stored = <<>>
    /\ db_calls = 0
    /\ db_pc = "idle"

\* process_duplicates is not running
RvIdle ==
    /\ rv_transcript = <<>>
    /\ rv_dupe_lines = <<>>
    /\ rv_index = 1
    /\ line_pairs = <<>>
    /\ rv_pc = "idle"
    /\ rv_run = 1
    /\ rv_start = <<>>
    /\ rv_decided = <<>>
    /\ rv_prompted = {}
    /\ rv_cancelled = FALSE
    /\ rv_first = [decided |-> {}, saved |-> <<>>]
    /\ rv_saved = FALSE
    /\ rv_page = <<>>

\* flag_duplicates is not running
NgIdle ==
    /\ ng_line = <<>>
    /\ dupe_ngrams = {}
    /\ longest_ngrams = <<>>
    /\ new_line = <<>>
    /\ ng_pc = "idle"

\* the state of the components a specification does not run
BfRestIdle == DdIdle /\ ScIdle /\ PtIdle /\ LsIdle /\ DbIdle /\ RvIdle /\ NgIdle

DdRestIdle == BfIdle /\ ScIdle /\ PtIdle /\ LsIdle /\ DbIdle /\ RvIdle /\ NgIdle

ScRestIdle == BfIdle /\ DdIdle /\ PtIdle /\ LsIdle /\ DbIdle /\ RvIdle /\ NgIdle

PtRestIdle == BfIdle /\ DdIdle /\ ScIdle /\ LsIdle /\ DbIdle /\ RvIdle /\ NgIdle

LsRestIdle == BfIdle /\ DdIdle /\ ScIdle /\ PtIdle /\ DbIdle /\ RvIdle /\ NgIdle

DbRestIdle == BfIdle /\ DdIdle /\ ScIdle /\ PtIdle /\ LsIdle /\ RvIdle /\ NgIdle

RvRestIdle == BfIdle /\ DdIdle /\ ScIdle /\ PtIdle /\ LsIdle /\ DbIdle /\ NgIdle

NgRestIdle == BfIdle /\ DdIdle /\ ScIdle /\ PtIdle /\ LsIdle /\ DbIdle /\ RvIdle

----------------------------------------------------------------------------
(* Bounds of the model.                                                    *)

MaxBreakLines == 4

MaxDupeLines == 4

----------------------------------------------------------------------------
(* Tokens.                                                                 *)

NL == "\n"

\* tokens whose lower-cased text contains an entry of BREAK_PHRASES
BREAK_PHRASES == {"go to break"}

\* tokens whose lower-cased text contains an entry of DURING_BREAK_PHRASES
DURING_BREAK_PHRASES == {"open your heart to chaos"}

\* tokens whose lower-cased text contains welcome_backs['en']
WelcomeBackToks == {"welcome back", "Welcome back,"}

\* the recognised speaker tags (actor_data.speaker_tags)
speaker_tags == {"MATT", "LAURA", "ALL"}

\* tokens that contain tag.capitalize() + ':' for a tag of speaker_tags
CapitalizedTagToks == {"Matt:", "Laura:", "All:"}

BREAK_BEGINS == "<!-- BREAK BEGINS"
BREAK_ENDS == "BREAK ENDS -->"
PART_II == "== Part II =="

----------------------------------------------------------------------------
(* Python string operations on token sequences.                            *)

\* x in s, for a set of tokens standing for the searched phrase
HasTok(s, toks) == \E i \in 1..Len(s) : s[i] \in toks

\* sub in s
Contains(s, sub) ==
    \E i \in 0..(Len(s) - Len(sub)) : SubSeq(s, i + 1, i + Len(sub)) = sub

\* s[j:].startswith(sub), for a 1-based j
StartsAt(s, j, sub) ==
    /\ j + Len(sub) - 1 <= Len(s)
    /\ SubSeq(s, j, j + Len(sub) - 1) = sub

\* s.count(tok)
Count(s, tok) == Cardinality({i \in 1..Len(s) : s[i] = tok})

\* '\n'.join(lines)
RECURSIVE JoinLines(_)
JoinLines(lines) ==
    IF lines = <<>> THEN <<>>
    ELSE IF Len(lines) = 1 THEN lines[1]
    ELSE lines[1] \o <<NL>> \o JoinLines(Tail(lines))

\* s.splitlines(): a line ends at every newline; a last line without a
\* newline is kept only when it is not empty
RECURSIVE SplitFrom(_, _, _)
SplitFrom(s, i, cur) ==
    IF i > Len(s) THEN (IF cur = <<>> THEN <<>> ELSE <<cur>>)
    ELSE IF s[i] = NL THEN <<cur>> \o SplitFrom(s, i + 1, <<>>)
    ELSE SplitFrom(s, i + 1, Append(cur, s[i]))

SplitLines(s) == SplitFrom(s, 1, <<>>)

\* s.replace(old, new): every non-overlapping occurrence, left to right
RECURSIVE Replace(_, _, _)
Replace(s, old, new) ==
    IF Len(s) < Len(old) THEN s
    ELSE IF SubSeq(s, 1, Len(old)) = old
         THEN new \o Replace(SubSeq(s, Len(old) + 1, Len(s)), old, new)
         ELSE <<s[1]>> \o Replace(Tail(s), old, new)

\* all sequences over S of length at most n
SeqUpTo(S, n) == UNION {[1..k -> S] : k \in 0..n}

----------------------------------------------------------------------------
(* Break detectors.                                                        *)

StartsWithMatt(line) == Len(line) > 0 /\ line[1] = "MATT:"

break_criteria_1(line, break_taken, during_break) ==
    /\ ~break_taken
    /\ ~during_break
    /\ StartsWithMatt(line)
    /\ HasTok(line, BREAK_PHRASES)

break_criteria_2(line, break_taken, during_break) ==
    /\ ~break_taken
    /\ ~during_break
    /\ HasTok(line, CapitalizedTagToks)

break_criteria_3(line, break_taken, during_break) ==
    /\ ~break_taken
    /\ ~during_break
    /\ HasTok(line, DURING_BREAK_PHRASES)

welcome_back(line) == HasTok(line, WelcomeBackToks)

\* the detector find_break is called with: 1 (the default), 2 or 3
break_function(fn, line, break_taken, during_break) ==
    CASE fn = 1 -> break_criteria_1(line, break_taken, during_break)
      [] fn = 2 -> break_criteria_2(line, break_taken, during_break)
      [] OTHER -> break_criteria_3(line, break_taken, during_break)

----------------------------------------------------------------------------
(* Breakfinder.find_break                                                  *)

\* lines[i+1:i+5] of a 0-based index i, for the 1-based index k = i + 1
NextLines(lines, k) ==
    SubSeq(lines, k + 1, IF k + 4 < Len(lines) THEN k + 4 ELSE Len(lines))

NewFirstLine(old_first_line) == old_first_line \o <<NL, NL, BREAK_BEGINS, NL>>

\* mutant: the end marker and the heading appended after the block
NewLastLine_After(old_last_line) ==
    old_last_line \o <<NL, NL, BREAK_ENDS, NL, NL, PART_II>>

NewLastLine(old_last_line) ==
    <<BREAK_ENDS, NL, NL, PART_II, NL, NL>> \o old_last_line

\* the loop over the lines: st holds the loop's local variables
RECURSIVE ScanLines(_, _, _, _)
ScanLines(lines, k, fn, st) ==
    IF k > Len(lines) THEN st
    ELSE IF break_function(fn, lines[k], st.break_taken, st.during_break)
    THEN ScanLines(lines, k + 1, fn,
                   [st EXCEPT !.during_break = TRUE,
                              !.old_first_line = lines[k],
                              !.found = TRUE])
    ELSE IF st.during_break /\ StartsWithMatt(lines[k]) /\ welcome_back(lines[k])
    THEN [st EXCEPT !.during_break = FALSE,
                    !.break_taken = TRUE,
                    !.old_last_line =
                        lines[k] \o <<NL>> \o JoinLines(NextLines(lines, k))]
    ELSE ScanLines(lines, k + 1, fn, st)

ScanStart ==
    [break_taken |-> FALSE, during_break |-> FALSE, found |-> FALSE,
     old_first_line |-> <<>>, old_last_line |-> <<>>]

ReplaceFirstLine(text, old_first_line) ==
    IF old_first_line # <<>>
    THEN Replace(text, old_first_line, NewFirstLine(old_first_line))
    ELSE text

\* mutant: the end marker written without the guard on old_last_line
ReplaceLastLine_NoGuard(text, old_last_line) ==
    IF old_last_line # <<>>
    THEN Replace(text, old_last_line, NewLastLine(old_last_line))
    ELSE NewLastLine(<<>>) \o text

ReplaceLastLine(text, old_last_line) ==
    IF old_last_line # <<>>
    THEN Replace(text, old_last_line, NewLastLine(old_last_line))
    ELSE text

\* find_break: the revised transcript and the new value of break_found
find_break(text, found, fn) ==
    IF found THEN [revised |-> text, found |-> found]
    ELSE LET st == ScanLines(SplitLines(text), 1, fn, ScanStart)
         IN  [revised |-> ReplaceLastLine(
                              ReplaceFirstLine(text, st.old_first_line),
                              st.old_last_line),
              found |-> st.found]

----------------------------------------------------------------------------
(* Breakfinder.__post_init__                                               *)

\* the transcripts handed to Breakfinder: lines of BreakLines joined by NL
BreakLines ==
    { <<"MATT:", "go to break">>,
      <<"MATT:", "Welcome back,">>,
      <<"MATT:", "go to break", "Welcome back,">>,
      <<"LAURA:", "welcome back">>,
      <<"(ad content)">>,
      <<"Matt:", "hi">>,
      <<"open your heart to chaos">>,
      <<>> }

Prefixes == {"M", "3"}

BfInit ==
    /\ bf_transcript \in {JoinLines(ls) : ls \in SeqUpTo(BreakLines, MaxBreakLines)}
    /\ bf_prefix \in Prefixes
    /\ break_found = FALSE
    /\ revised_transcript = <<>>
    /\ bf_pc = "primary"

\* self.revised_transcript = self.find_break()
FindBreakPrimary ==
    /\ bf_pc = "primary"
    /\ LET r == find_break(bf_transcript, break_found, 1)
       IN  /\ revised_transcript' = r.revised
           /\ break_found' = r.found
    /\ bf_pc' = "fallbackA"
    /\ UNCHANGED <<bf_transcript, bf_prefix>>
    /\ UNCHANGED bfRest

\* mutant: fallback A runs although the primary detector found a begin
FindBreakFallbackA_Unguarded ==
    /\ bf_pc = "fallbackA"
    /\ LET r == find_break(bf_transcript, break_found, 2)
       IN  /\ revised_transcript' = r.revised
           /\ break_found' = r.found
    /\ bf_pc' = "fallbackB"
    /\ UNCHANGED <<bf_transcript, bf_prefix>>
    /\ UNCHANGED bfRest

\* if not self.break_found: ... find_break(break_function=break_criteria_2)
FindBreakFallbackA ==
    /\ bf_pc = "fallbackA"
    /\ IF ~break_found
       THEN LET r == find_break(bf_transcript, break_found, 2)
            IN  /\ revised_transcript' = r.revised
                /\ break_found' = r.found
       ELSE UNCHANGED <<revised_transcript, break_found>>
    /\ bf_pc' = "fallbackB"
    /\ UNCHANGED <<bf_transcript, bf_prefix>>
    /\ UNCHANGED bfRest

\* if not self.break_found: ... find_break(break_function=break_criteria_3)
FindBreakFallbackB ==
    /\ bf_pc = "fallbackB"
    /\ IF ~break_found
       THEN LET r == find_break(bf_transcript, break_found, 3)
            IN  /\ revised_transcript' = r.revised
                /\ break_found' = r.found
       ELSE UNCHANGED <<revised_transcript, break_found>>
    /\ bf_pc' = "assert"
    /\ UNCHANGED <<bf_transcript, bf_prefix>>
    /\ UNCHANGED bfRest

\* mutant: the assert accepts a begin marker without an end marker
EndOfBreakDetected_AnyMarker(revised, text) ==
    revised = text \/ Count(revised, BREAK_ENDS) > 0
                  \/ Count(revised, BREAK_BEGINS) > 0

\* the assert of __post_init__
EndOfBreakDetected(revised, text) ==
    revised = text \/ Count(revised, BREAK_ENDS) > 0

\* try: assert ... except AssertionError: discard for prefix 'M', else raise
CheckBreakEnd ==
    /\ bf_pc = "assert"
    /\ IF EndOfBreakDetected(revised_transcript, bf_transcript)
       THEN /\ bf_pc' = "done"
            /\ UNCHANGED revised_transcript
       ELSE IF bf_prefix = "M" /\ bf_transcript # revised_transcript
       THEN /\ revised_transcript' = bf_transcript
            /\ bf_pc' = "done"
       ELSE /\ bf_pc' = "raised"
            /\ UNCHANGED revised_transcript
    /\ UNCHANGED <<bf_transcript, bf_prefix, break_found>>
    /\ UNCHANGED bfRest

NextBreak ==
    \/ FindBreakPrimary
    \/ FindBreakFallbackA
    \/ FindBreakFallbackB
    \/ CheckBreakEnd

InitBreak == BfInit /\ BfRestIdle

SpecBreak == InitBreak /\ [][NextBreak]_vars

----------------------------------------------------------------------------
(* Properties of Breakfinder.                                              *)

BfLines == SplitLines(bf_transcript)

BfFinished == bf_pc \in {"done", "raised"}

\* the lines a detector accepts as the begin of the break
Detects(fn) == {k \in 1..Len(BfLines) : break_function(fn, BfLines[k], FALSE, FALSE)}

MinOf(S) == CHOOSE x \in S : \A y \in S : x <= y

\* some detector of the cascade finds a begin; the line it is found at
BeginDetected == \E fn \in 1..3 : Detects(fn) # {}

BeginIndex ==
    IF Detects(1) # {} THEN MinOf(Detects(1))
    ELSE IF Detects(2) # {} THEN MinOf(Detects(2))
    ELSE MinOf(Detects(3))

\* the 'MATT:' lines after line k that say welcome back
LaterWelcomes(k) ==
    {j \in (k + 1)..Len(BfLines) :
        StartsWithMatt(BfLines[j]) /\ welcome_back(BfLines[j])}

IndexOf(s, tok) == MinOf({i \in 1..Len(s) : s[i] = tok})

\* C1 (as claimed): a completed Breakfinder leaves exactly one begin marker
\* and exactly one end marker, the begin before the end, or neither marker.
C1_BreakAtomicity ==
    bf_pc = "done" =>
        LET b == Count(revised_transcript, BREAK_BEGINS)
            e == Count(revised_transcript, BREAK_ENDS)
        IN  \/ b = 0 /\ e = 0
            \/ /\ b = 1
               /\ e = 1
               /\ IndexOf(revised_transcript, BREAK_BEGINS)
                    < IndexOf(revised_transcript, BREAK_ENDS)

\* C2: when a detector finds a begin and no later 'MATT:' line says welcome
\* back, Breakfinder raises unless the prefix is 'M'; for 'M' it completes
\* with the original transcript and no begin marker.
C2_UnmatchedBegin ==
    (BfFinished /\ BeginDetected /\ LaterWelcomes(BeginIndex) = {}) =>
        IF bf_prefix # "M"
        THEN bf_pc = "raised"
        ELSE /\ bf_pc = "done"
             /\ revised_transcript = bf_transcript
             /\ Count(revised_transcript, BREAK_BEGINS) = 0

C2_Witness ==
    /\ bf_pc = "raised"
    /\ bf_prefix # "M"
    /\ BeginDetected
    /\ LaterWelcomes(BeginIndex) = {}

\* C3: when no line satisfies any detector, Breakfinder raises nothing and
\* the revised transcript is the input.
C3_NoBreakUnchanged ==
    (BfFinished /\ ~BeginDetected) =>
        (bf_pc = "done" /\ revised_transcript = bf_transcript)

C3_Witness ==
    /\ bf_pc = "done"
    /\ ~BeginDetected
    /\ Len(BfLines) > 1
    /\ \E k \in 1..Len(BfLines) : welcome_back(BfLines[k])

\* the case of C4: a 'MATT:' line announces the break, a later 'MATT:' line
\* says welcome back, and the result holds an end marker
AnnouncedAndWelcomed ==
    /\ Detects(1) # {}
    /\ LaterWelcomes(MinOf(Detects(1))) # {}

AnnouncementLine == BfLines[MinOf(Detects(1))]

WelcomeLine == BfLines[MinOf(LaterWelcomes(MinOf(Detects(1))))]

C4_Case ==
    /\ bf_pc = "done"
    /\ AnnouncedAndWelcomed
    /\ Count(revised_transcript, BREAK_ENDS) > 0

BeginAtAnnouncement ==
    Contains(revised_transcript,
             AnnouncementLine \o <<NL, NL, BREAK_BEGINS, NL>>)

----------------------------------------------------------------------------
(* Characters of the tokens.                                               *)

\* the music-note glyph is written ~ ; tokens that contain it
MusicToks == {"~ la la ~", "~ Critical Role ~", "~ flames ~"}

\* tokens that begin with '(' and tokens that end with ')'
ParenOpenToks == {"(laughs)", "(ad content)"}
ParenCloseToks == {"(laughs)", "(ad content)"}

DUPLICATE_OPEN == "<!-- DUPLICATE"
COMMENT_CLOSE == "-->"

\* [x for x in tok if x.isalpha()]
Letters(tok) ==
    CASE tok = "MATT:" -> <<"M", "A", "T", "T">>
      [] tok = "LAURA:" -> <<"L", "A", "U", "R", "A">>
      [] tok = "MATT" -> <<"M", "A", "T", "T">>
      [] tok \in {"Hello", "Hello."} -> <<"H", "e", "l", "l", "o">>
      [] tok \in {"everybody", "everybody,"} ->
            <<"e", "v", "e", "r", "y", "b", "o", "d", "y">>
      [] tok \in {"hi", "hi."} -> <<"h", "i">>
      [] tok = "&amp;" -> <<"a", "m", "p">>
      [] tok = "(laughs)" -> <<"l", "a", "u", "g", "h", "s">>
      [] tok = "~ la la ~" -> <<"l", "a", "l", "a">>
      [] tok = "~ Critical Role ~" ->
            <<"C", "r", "i", "t", "i", "c", "a", "l", "R", "o", "l", "e">>
      [] tok = "~ flames ~" -> <<"f", "l", "a", "m", "e", "s">>
      [] tok = "go to break" ->
            <<"g", "o", "t", "o", "b", "r", "e", "a", "k">>
      [] tok = "Welcome back," ->
            <<"W", "e", "l", "c", "o", "m", "e", "b", "a", "c", "k">>
      [] tok = DUPLICATE_OPEN ->
            <<"D", "U", "P", "L", "I", "C", "A", "T", "E">>
      [] OTHER -> <<>>

\* [x for x in line if x.isalpha()]
RECURSIVE LineLetters(_)
LineLetters(line) ==
    IF line = <<>> THEN <<>>
    ELSE Letters(Head(line)) \o LineLetters(Tail(line))

\* re.match('^\(', line)
StartsParen(line) == Len(line) > 0 /\ line[1] \in ParenOpenToks

\* wikify_html_string on one token
WikifyTok(tok) ==
    CASE tok \in {"<i>", "</i>"} -> "''"
      [] tok \in {"<b>", "</b>"} -> "'''"
      [] tok = "&amp;" -> "&"
      [] tok = "&quot;" -> "\""
      [] OTHER -> tok

wikify_html_string(text) == [i \in 1..Len(text) |-> WikifyTok(text[i])]

----------------------------------------------------------------------------
(* YoutubeTranscript.flag_duplicate_captions                               *)

\* len(text1) > DupeMinLetters is required of a near-duplicate
DupeMinLetters == 10

\* caption_lines[i-1] of a 0-based index i, for the 1-based index k = i + 1:
\* Python's index -1 is the last element
PrevIndex(cl, k) == IF k = 1 THEN Len(cl) ELSE k - 1

\* the value of dupe for the line at index k (a line that is not blank)
IsDupe(cl, k) ==
    LET line == cl[k][1]
        prev == cl[PrevIndex(cl, k)][1]
    IN  IF HasTok(line, MusicToks) THEN FALSE
        ELSE IF line = prev /\ ~StartsParen(line) THEN TRUE
        ELSE IF ~StartsParen(line)
        THEN /\ LineLetters(line) = LineLetters(prev)
             /\ Len(LineLetters(line)) > DupeMinLetters
        ELSE FALSE

\* '<!-- DUPLICATE ' + line + '-->'
WrapDuplicate(line) == <<DUPLICATE_OPEN>> \o line \o <<COMMENT_CLOSE>>

\* mutant: a duplicate is dropped from the returned list
AppendedLine_Dropped(line, dupe) == IF dupe THEN <<>> ELSE <<line>>

\* what the loop appends to preprocessed_captions for a line that is not blank
AppendedLine(line, dupe) == IF dupe THEN <<WrapDuplicate(line)>> ELSE <<line>>

\* what the loop appends to dupe_lines for the line at index k
AppendedMark(cl, k, dupe) ==
    IF dupe
    THEN <<[text |-> wikify_html_string(WrapDuplicate(cl[k][1])),
            start |-> cl[PrevIndex(cl, k)][2]]>>
    ELSE <<>>

\* the loop from index k on; r holds preprocessed_captions and dupe_lines
RECURSIVE FlagFrom(_, _, _)
FlagFrom(cl, k, r) ==
    IF k > Len(cl) THEN r
    ELSE IF cl[k][1] = <<>> THEN FlagFrom(cl, k + 1, r)
    ELSE LET dupe == IsDupe(cl, k)
         IN  FlagFrom(cl, k + 1,
                      [out |-> r.out \o AppendedLine(cl[k][1], dupe),
                       marks |-> r.marks \o AppendedMark(cl, k, dupe)])

\* flag_duplicate_captions: the returned list and the new dupe_lines[language]
flag_duplicate_captions(cl, marks) ==
    FlagFrom(cl, 1, [out |-> <<>>, marks |-> marks])

\* the start times of the lines that reach the returned list
RECURSIVE KeptTimes(_)
KeptTimes(cl) ==
    IF cl = <<>> THEN <<>>
    ELSE IF Head(cl)[1] = <<>> THEN KeptTimes(Tail(cl))
    ELSE <<Head(cl)[2]>> \o KeptTimes(Tail(cl))

\* the lines given to the detector
DupeLines ==
    { <<"MATT:", "Hello", "everybody">>,
      <<"MATT:", "Hello.", "everybody,">>,
      <<"hi", "&amp;">>,
      <<"hi.", "&amp;">>,
      <<"(laughs)">>,
      <<"~ la la ~">>,
      <<>> }

MaxDupeRuns == 2

DdInit ==
    /\ caption_lines \in
         {[k \in 1..Len(ls) |-> <<ls[k], k - 1>>] :
             ls \in SeqUpTo(DupeLines, MaxDupeLines)}
    /\ preprocessed_captions = <<>>
    /\ dupe_lines = <<>>
    /\ dd_run = 0

\* the detector runs on the caption lines
FlagDuplicateCaptions ==
    /\ dd_run = 0
    /\ LET r == flag_duplicate_captions(caption_lines, dupe_lines)
       IN  /\ preprocessed_captions' = r.out
           /\ dupe_lines' = r.marks
    /\ dd_run' = 1
    /\ UNCHANGED caption_lines
    /\ UNCHANGED ddRest

\* the detector runs again, on the list it returned
FlagDuplicateCaptionsAgain ==
    /\ dd_run >= 1
    /\ dd_run < MaxDupeRuns
    /\ LET times == KeptTimes(caption_lines)
           cl == [k \in 1..Len(preprocessed_captions) |->
                     <<preprocessed_captions[k], times[k]>>]
           r == flag_duplicate_captions(cl, dupe_lines)
       IN  /\ caption_lines' = cl
           /\ preprocessed_captions' = r.out
           /\ dupe_lines' = r.marks
    /\ dd_run' = dd_run + 1
    /\ UNCHANGED ddRest

NextDupe ==
    \/ FlagDuplicateCaptions
    \/ FlagDuplicateCaptionsAgain

InitDupe == DdInit /\ DdRestIdle

SpecDupe == InitDupe /\ [][NextDupe]_vars

----------------------------------------------------------------------------
(* Properties of the duplicate detector.                                   *)

\* the indices of the lines the detector takes for duplicates, ascending
RECURSIVE DupIndicesFrom(_, _)
DupIndicesFrom(cl, k) ==
    IF k > Len(cl) THEN <<>>
    ELSE IF cl[k][1] # <<>> /\ IsDupe(cl, k)
         THEN <<k>> \o DupIndicesFrom(cl, k + 1)
         ELSE DupIndicesFrom(cl, k + 1)

DupIndices(cl) == DupIndicesFrom(cl, 1)

\* the position in the returned list of the entry for line k
Rank(cl, k) == Len(KeptTimes(SubSeq(cl, 1, k)))

\* the detector does not take the first line for a duplicate of the last
NoWrapAround(cl) == cl = <<>> \/ cl[1][1] = <<>> \/ ~IsDupe(cl, 1)

\* C6 (as claimed): a second run, on the list the first run returned,
\* records no further DuplicateMark and marks no further line.
C6_Idempotent ==
    [][(dd_run = 1 /\ dd_run' = 2
            /\ NoWrapAround(caption_lines) /\ NoWrapAround(caption_lines'))
        => (dupe_lines' = dupe_lines
                /\ preprocessed_captions' = preprocessed_captions)]_vars

\* C7 (as claimed): a detected duplicate has no entry in the returned list.
C7_DuplicateRemoved ==
    (dd_run = 1 /\ NoWrapAround(caption_lines)) =>
        Len(preprocessed_captions)
            = Len(KeptTimes(caption_lines)) - Len(DupIndices(caption_lines))

\* C7 (amended): a detected duplicate keeps its entry in the returned list,
\* wrapped in a DUPLICATE comment, and a DuplicateMark holds the same wrapped
\* text (wikified).
C7_DuplicateKeptWrapped ==
    dd_run = 1 =>
        /\ Len(preprocessed_captions) = Len(KeptTimes(caption_lines))
        /\ \A n \in 1..Len(DupIndices(caption_lines)) :
              LET k == DupIndices(caption_lines)[n]
                  wrapped == WrapDuplicate(caption_lines[k][1])
              IN  /\ preprocessed_captions[Rank(caption_lines, k)] = wrapped
                  /\ n <= Len(dupe_lines)
                  /\ dupe_lines[n].text = wikify_html_string(wrapped)

C7_Witness ==
    /\ dd_run = 1
    /\ \E n \in 1..Len(DupIndices(caption_lines)) :
          /\ DupIndices(caption_lines)[n] > 1
          /\ caption_lines[DupIndices(caption_lines)[n]][1]
               = caption_lines[DupIndices(caption_lines)[n] - 1][1]

\* C8 (as claimed): every detected duplicate yields exactly one mark, in
\* input order, whose start time is that of the line immediately before
\* the duplicate in the input.
C8_MarkOfPreviousLine ==
    dd_run = 1 =>
        /\ Len(dupe_lines) = Len(DupIndices(caption_lines))
        /\ \A n \in 1..Len(dupe_lines) :
              LET k == DupIndices(caption_lines)[n]
              IN  /\ k > 1
                  /\ dupe_lines[n].start = caption_lines[k - 1][2]
                  /\ dupe_lines[n].text
                       = wikify_html_string(WrapDuplicate(caption_lines[k][1]))

----------------------------------------------------------------------------
(* YoutubeTranscript.combine_preprocessed_captions                         *)

DEFAULT_LANGUAGE == "en"

QUOTE == "\""
PART_I == "== Part I =="
MISSING_TAG == "<!-- potential missing speaker tag -->"

\* tokens matched by "~ It's Thursday night ~" or holding "~ critical"
IntroCueToks == {"~ Critical Role ~"}

\* tokens whose lower-cased text holds 'flames', 'fire' or 'wind'
IntroEndToks == {"~ flames ~"}

\* tokens that hold a tag of speaker_tags, and tokens that hold ':'
TagToks == {"MATT:", "LAURA:", "MATT"}
ColonToks == {"MATT:", "LAURA:", "Matt:", "Laura:", "All:"}

\* tokens that begin with [A-Z]; tokens that hold [A-Z]\s*: ; tokens that
\* end with ':'
UpperStartToks ==
    {"MATT:", "LAURA:", "MATT", "Matt:", "Laura:", "All:", "Hello", "Hello.",
     "Welcome back,", "Well,"}
UpperColonToks == {"MATT:", "LAURA:"}
EndColonToks == {"MATT:", "LAURA:", "Matt:", "Laura:", "All:"}

\* tokens that open a comment closed by a later '-->'
CommentOpenToks == {DUPLICATE_OPEN}

\* the token closing the comment opened at p ('.' matches no newline), or 0
CloseOf(text, p) ==
    LET cands == {q \in (p + 1)..Len(text) :
                     /\ text[q] = COMMENT_CLOSE
                     /\ \A j \in (p + 1)..q : text[j] # NL}
    IN  IF cands = {} THEN 0 ELSE MinOf(cands)

\* re.sub('<\!--.*?-->', '', text).count('"'), from token p on
RECURSIVE QuoteCountFrom(_, _)
QuoteCountFrom(text, p) ==
    IF p > Len(text) THEN 0
    ELSE IF text[p] \in CommentOpenToks /\ CloseOf(text, p) # 0
    THEN QuoteCountFrom(text, CloseOf(text, p) + 1)
    ELSE (IF text[p] = QUOTE THEN 1 ELSE 0) + QuoteCountFrom(text, p + 1)

QuoteCount(text) == QuoteCountFrom(text, 1)

\* text.strip(): blanks are implicit, newlines are tokens
RECURSIVE Strip(_)
Strip(text) ==
    IF text = <<>> THEN <<>>
    ELSE IF Head(text) = NL THEN Strip(Tail(text))
    ELSE IF text[Len(text)] = NL THEN Strip(SubSeq(text, 1, Len(text) - 1))
    ELSE text

\* ' '.join([a.strip(), b.strip()]).strip()
JoinStripped(a, b) == Strip(Strip(a) \o Strip(b))

\* re.search(speaker_regex, line) with speaker_regex = '^[A-Z].*?[A-Z]\s*:'
SpeakerLine(line) ==
    /\ Len(line) > 0
    /\ line[1] \in UpperStartToks
    /\ HasTok(line, UpperColonToks)

\* re.match('^\(.*?\)$', line.strip())
Parenthetical(line) ==
    /\ Len(line) > 0
    /\ line[1] \in ParenOpenToks
    /\ line[Len(line)] \in ParenCloseToks

\* re.search(':$', prev_line)
EndsColon(line) == Len(line) > 0 /\ line[Len(line)] \in EndColonToks

\* the local variables of combine_preprocessed_captions before the loop
CombineStart(lang) ==
    [during_intro |-> FALSE,
     intro_done |-> (lang # DEFAULT_LANGUAGE),
     active_quote |-> FALSE,
     fixed_lines |-> <<>>,
     line_in_progress |-> <<>>]

\* the branch "continuation of previous line" (and the inline aside)
Continuation(st, line, aq) ==
    LET joined == JoinStripped(st.line_in_progress, line)
    IN  [st EXCEPT !.line_in_progress = joined,
                   !.active_quote =
                       IF QuoteCount(joined) % 2 = 0 THEN FALSE ELSE aq]

\* the branch "this indicates a person is speaking"
SpeakerBranch(st, line, aq) ==
    [st EXCEPT !.active_quote = aq,
               !.fixed_lines =
                   IF st.line_in_progress # <<>>
                   THEN Append(@, st.line_in_progress) ELSE @,
               !.line_in_progress = line]

\* the branch "non-dialogue descriptions that get their own lines"
DescriptionBranch(st, lines, k, line, aq) ==
    IF k >= Len(lines)
    THEN [st EXCEPT !.active_quote = aq, !.fixed_lines = Append(@, line)]
    ELSE LET prev_line == IF k # 1 THEN lines[k - 1] ELSE <<>>
             next_line == lines[k + 1]
         IN  IF SpeakerLine(next_line) /\ ~EndsColon(prev_line)
             THEN [st EXCEPT !.active_quote = aq,
                             !.fixed_lines = @ \o <<st.line_in_progress, line>>,
                             !.line_in_progress = <<>>]
             ELSE Continuation(st, line, aq)

\* the body of the loop after the intro has been dealt with
DialogueStep(st, lines, k) ==
    LET line0 == lines[k]
        line1 == IF st.active_quote /\ Len(line0) > 0 /\ line0[1] = QUOTE
                 THEN Tail(line0) ELSE line0
        aq == st.active_quote \/ QuoteCount(line1) % 2 # 0
        line == IF HasTok(line1, TagToks) /\ ~HasTok(line1, ColonToks)
                THEN <<MISSING_TAG>> \o line1 ELSE line1
    IN  IF SpeakerLine(line) THEN SpeakerBranch(st, line, aq)
        ELSE IF Parenthetical(line) /\ ~aq
        THEN DescriptionBranch(st, lines, k, line, aq)
        ELSE IF st.line_in_progress # <<>> THEN Continuation(st, line, aq)
        ELSE [st EXCEPT !.active_quote = aq]

\* mutant: leaving the intro does not set intro_done
CombineStep_Reenter(st, lines, k) ==
    LET line == lines[k]
    IN  IF ~st.during_intro /\ ~st.intro_done /\ HasTok(line, IntroCueToks)
        THEN [st EXCEPT !.during_intro = TRUE]
        ELSE IF st.during_intro
                 /\ (welcome_back(line) \/ HasTok(line, IntroEndToks))
        THEN [st EXCEPT !.during_intro = FALSE,
                        !.line_in_progress =
                            IF welcome_back(line)
                            THEN @ \o <<NL, NL, PART_I, NL, NL>> \o line
                            ELSE @ \o <<NL, NL, PART_I>>]
        ELSE IF st.during_intro THEN st
        ELSE DialogueStep(st, lines, k)

\* one iteration of the loop, for the 1-based index k
CombineStep(st, lines, k) ==
    LET line == lines[k]
    IN  IF ~st.during_intro /\ ~st.intro_done /\ HasTok(line, IntroCueToks)
        THEN [st EXCEPT !.during_intro = TRUE]
        ELSE IF st.during_intro
                 /\ (welcome_back(line) \/ HasTok(line, IntroEndToks))
        THEN [st EXCEPT !.during_intro = FALSE,
                        !.intro_done = TRUE,
                        !.line_in_progress =
                            IF welcome_back(line)
                            THEN @ \o <<NL, NL, PART_I, NL, NL>> \o line
                            ELSE @ \o <<NL, NL, PART_I>>]
        ELSE IF st.during_intro THEN st
        ELSE DialogueStep(st, lines, k)

\* sep.join(blocks)
RECURSIVE JoinWith(_, _)
JoinWith(blocks, sep) ==
    IF blocks = <<>> THEN <<>>
    ELSE IF Len(blocks) = 1 THEN blocks[1]
    ELSE blocks[1] \o sep \o JoinWith(Tail(blocks), sep)

\* "add last line" and the join of the blocks
CombineEnd(st) ==
    JoinWith(Append(st.fixed_lines, st.line_in_progress), <<NL, NL>>)

RECURSIVE CombineFrom(_, _, _)
CombineFrom(st, lines, k) ==
    IF k > Len(lines) THEN st
    ELSE CombineFrom(CombineStep(st, lines, k), lines, k + 1)

\* combine_preprocessed_captions
combine_preprocessed_captions(lines, lang) ==
    CombineEnd(CombineFrom(CombineStart(lang), lines, 1))

----------------------------------------------------------------------------
(* combine_preprocessed_captions, one line of the loop at a time           *)

MaxCombineLines == 3

\* the preprocessed lines the combiner is run on
CombineLines ==
    {<<"MATT:", "Welcome back,">>,
     <<"LAURA:", QUOTE, "hi">>,
     <<"there", QUOTE>>,
     <<QUOTE, "Well,", QUOTE, "LAURA:", QUOTE, "odd.">>,
     <<"more text here.">>,
     <<"(laughs)">>,
     <<"~ Critical Role ~">>,
     <<"~ flames ~">>,
     <<"MATT", "hi">>,
     <<"MATT:", "hi", QUOTE>>,
     <<QUOTE, "hi", QUOTE>>}

Languages == {"en", "fr"}

ScInit ==
    /\ sc_lines \in SeqUpTo(CombineLines, MaxCombineLines)
    /\ sc_language \in Languages
    /\ line_index = 1
    /\ during_intro = CombineStart(sc_language).during_intro
    /\ intro_done = CombineStart(sc_language).intro_done
    /\ active_quote = CombineStart(sc_language).active_quote
    /\ fixed_lines = CombineStart(sc_language).fixed_lines
    /\ line_in_progress = CombineStart(sc_language).line_in_progress
    /\ sc_transcript = <<>>
    /\ sc_pc = "loop"

ScState ==
    [during_intro |-> during_intro,
     intro_done |-> intro_done,
     active_quote |-> active_quote,
     fixed_lines |-> fixed_lines,
     line_in_progress |-> line_in_progress]

\* one iteration of "for i, line in enumerate(preprocessed_captions)"
CombineLine ==
    /\ sc_pc = "loop"
    /\ line_index <= Len(sc_lines)
    /\ LET st == CombineStep(ScState, sc_lines, line_index)
       IN  /\ during_intro' = st.during_intro
           /\ intro_done' = st.intro_done
           /\ active_quote' = st.active_quote
           /\ fixed_lines' = st.fixed_lines
           /\ line_in_progress' = st.line_in_progress
    /\ line_index' = line_index + 1
    /\ UNCHANGED <<sc_lines, sc_language, sc_transcript, sc_pc>>
    /\ UNCHANGED scRest

\* the loop is over: the last line is added and the blocks are joined
CombineReturn ==
    /\ sc_pc = "loop"
    /\ line_index > Len(sc_lines)
    /\ fixed_lines' = Append(fixed_lines, line_in_progress)
    /\ sc_transcript' = CombineEnd(ScState)
    /\ sc_pc' = "done"
    /\ UNCHANGED <<sc_lines, sc_language, line_index, during_intro,
                   intro_done, active_quote, line_in_progress>>
    /\ UNCHANGED scRest

NextCombine ==
    \/ CombineLine
    \/ CombineReturn

InitCombine == ScInit /\ ScRestIdle

SpecCombine == InitCombine /\ [][NextCombine]_vars

----------------------------------------------------------------------------
(* Properties of combine_preprocessed_captions                             *)

\* the loop is about to process a line matching the speaker pattern while a
\* quotation is open and an utterance is buffered
SpeakerLineInsideQuote ==
    /\ sc_pc = "loop"
    /\ line_index <= Len(sc_lines)
    /\ ~during_intro
    /\ active_quote
    /\ line_in_progress # <<>>
    /\ SpeakerLine(sc_lines[line_index])

\* C9: while active_quote is true, a line that matches the speaker pattern
\* does not flush the buffered utterance into fixed_lines and does not
\* become a new line_in_progress of its own.
C9_NoSpeakerTurnInsideQuote ==
    [][SpeakerLineInsideQuote =>
          /\ fixed_lines' = fixed_lines
          /\ line_in_progress' # sc_lines[line_index]]_vars

\* the first line begins with a quote character and leaves the quotation
\* open, and the line after it is neither a speaker line nor an intro cue
FirstLineOpensQuote ==
    /\ Len(sc_lines) >= 2
    /\ Len(sc_lines[1]) > 0
    /\ sc_lines[1][1] = QUOTE
    /\ QuoteCount(sc_lines[1]) % 2 = 1
    /\ ~SpeakerLine(sc_lines[2])
    /\ ~HasTok(sc_lines[2], IntroCueToks)

\* the second line as it is merged: without its leading quote character
SecondLineMerged ==
    IF Len(sc_lines[2]) > 0 /\ sc_lines[2][1] = QUOTE
    THEN Tail(sc_lines[2]) ELSE sc_lines[2]

\* C10: when the first line begins with a quote character and holds an odd
\* number of quote characters, the returned blocks hold one block in which
\* the first line is followed by the second line.
C10_OpenQuoteMerged ==
    (sc_pc = "done" /\ FirstLineOpensQuote) =>
        \E b \in 1..Len(fixed_lines) :
            Contains(fixed_lines[b], sc_lines[1] \o SecondLineMerged)

----------------------------------------------------------------------------
(* YoutubeTranscript.divide_captions_by_speaker and process_captions       *)

\* tokens that begin with two capital letters
TwoUpperToks == {"MATT:", "LAURA:", "MATT"}

\* text.split('\n'): one more piece than there are newlines
RECURSIVE SplitOnNL(_)
SplitOnNL(text) ==
    IF Count(text, NL) = 0 THEN <<text>>
    ELSE LET p == MinOf({j \in 1..Len(text) : text[j] = NL})
         IN  <<SubSeq(text, 1, p - 1)>>
                 \o SplitOnNL(SubSeq(text, p + 1, Len(text)))

\* text.replace('\n', ' ')
RECURSIVE WithoutNL(_)
WithoutNL(text) ==
    IF text = <<>> THEN <<>>
    ELSE IF Head(text) = NL THEN WithoutNL(Tail(text))
    ELSE <<Head(text)>> \o WithoutNL(Tail(text))

\* int(line['start']) of a start given in tenths of a second
IntStart(start) == start \div 10

\* mutant: the first sub-line decides whether the caption is split
DivideCaption_FirstSubline(caption) ==
    LET lines == SplitOnNL(caption.text)
        first == lines[1]
    IN  IF Len(first) > 0 /\ first[1] \in (TwoUpperToks \cup ParenOpenToks)
        THEN [k \in 1..Len(lines) |-> <<lines[k], IntStart(caption.start)>>]
        ELSE << <<WithoutNL(caption.text), IntStart(caption.start)>> >>

\* the caption lines of one caption
DivideCaption(caption) ==
    LET lines == SplitOnNL(caption.text)
        last == lines[Len(lines)]
    IN  IF Len(last) > 0 /\ last[1] \in (TwoUpperToks \cup ParenOpenToks)
        THEN [k \in 1..Len(lines) |-> <<lines[k], IntStart(caption.start)>>]
        ELSE << <<WithoutNL(caption.text), IntStart(caption.start)>> >>

RECURSIVE divide_captions_by_speaker(_)
divide_captions_by_speaker(caps) ==
    IF caps = <<>> THEN <<>>
    ELSE DivideCaption(Head(caps))
             \o divide_captions_by_speaker(Tail(caps))

PRE_SHOW == "== Pre-show =="

\* process_captions: the transcript and the marks of the language
process_captions(caps, lang, marks) ==
    LET cl == divide_captions_by_speaker(caps)
        r == flag_duplicate_captions(cl, marks)
        t == combine_preprocessed_captions(r.out, lang)
    IN  [transcript |-> IF lang = DEFAULT_LANGUAGE
                        THEN <<PRE_SHOW, NL>> \o t ELSE t,
         marks |-> r.marks]

----------------------------------------------------------------------------
(* YoutubeTranscript.check_ts_names and process_errors                     *)

\* the words of a token, a token that holds ':' cut at the colon; a quote
\* character is no word of its own
WordsOf(tok) ==
    CASE tok = "MATT:" -> <<"MATT">>
      [] tok = "LAURA:" -> <<"LAURA">>
      [] tok = "Matt:" -> <<"Matt">>
      [] tok = "Laura:" -> <<"Laura">>
      [] tok = "All:" -> <<"All">>
      [] tok = "go to break" -> <<"go", "to", "break">>
      [] tok = "Welcome back," -> <<"Welcome", "back,">>
      [] tok = "welcome back" -> <<"welcome", "back">>
      [] tok = "open your heart to chaos" ->
             <<"open", "your", "heart", "to", "chaos">>
      [] tok = "more text here." -> <<"more", "text", "here.">>
      [] tok = "(ad content)" -> <<"(ad", "content)">>
      [] tok = DUPLICATE_OPEN -> <<"<!--", "DUPLICATE">>
      [] tok = BREAK_BEGINS -> <<"<!--", "BREAK", "BEGINS">>
      [] tok = BREAK_ENDS -> <<"BREAK", "ENDS", "-->">>
      [] tok = MISSING_TAG ->
             <<"<!--", "potential", "missing", "speaker", "tag", "-->">>
      [] tok = "~ la la ~" -> <<"~", "la", "la", "~">>
      [] tok = "~ Critical Role ~" -> <<"~", "Critical", "Role", "~">>
      [] tok = "~ flames ~" -> <<"~", "flames", "~">>
      [] tok = QUOTE -> <<>>
      [] OTHER -> <<tok>>

\* re.search(r'[A-Z]+', word).group(), "" when the word has no capital
FirstUpperRun(word) ==
    CASE word \in {"MATT", "LAURA", "ALL", "DUPLICATE", "BREAK", "BEGINS",
                   "ENDS"} -> word
      [] word \in {"Matt"} -> "M"
      [] word \in {"Laura"} -> "L"
      [] word \in {"All"} -> "A"
      [] word \in {"Hello", "Hello."} -> "H"
      [] word \in {"Welcome", "Well,"} -> "W"
      [] word \in {"Critical"} -> "C"
      [] word \in {"Role"} -> "R"
      [] OTHER -> ""

\* words matched by r'\b[A-Z]+\b'
BoundedUpperWords ==
    {"MATT", "LAURA", "ALL", "DUPLICATE", "BREAK", "BEGINS", "ENDS"}

RECURSIVE WordsOfLine(_)
WordsOfLine(line) ==
    IF line = <<>> THEN <<>>
    ELSE WordsOf(Head(line)) \o WordsOfLine(Tail(line))

\* x.split(':')[0] of a line that holds ':'
BeforeColon(line) ==
    LET p == MinOf({j \in 1..Len(line) : line[j] \in ColonToks})
    IN  SubSeq(line, 1, p)

\* the words of transcript_names
TranscriptNames(transcript) ==
    LET lines == SplitLines(transcript)
    IN  UNION {{WordsOfLine(BeforeColon(lines[k]))[j] :
                    j \in 1..Len(WordsOfLine(BeforeColon(lines[k])))} :
               k \in {n \in 1..Len(lines) : HasTok(lines[n], ColonToks)}}

capital_names(transcript) ==
    {FirstUpperRun(x) : x \in TranscriptNames(transcript) \cap BoundedUpperWords}

other_names(transcript) ==
    {x \in TranscriptNames(transcript) :
        \/ FirstUpperRun(x) = ""
        \/ FirstUpperRun(x) \notin capital_names(transcript)}

\* the two messages; the names they list are left out
WARN_LOWER == "Words besides 'and' in lower case for speaker names:"
WARN_NAMES == "Some speaker names potentially misspelled:"

\* mutant: the names are checked although no speaker tag occurs
check_ts_names_Unconditional(transcript) ==
    (IF other_names(transcript) # {"and"}
     THEN <<WARN_LOWER, NL>> ELSE <<>>)
    \o (IF ~(capital_names(transcript) \subseteq speaker_tags)
        THEN <<WARN_NAMES, NL>> ELSE <<>>)

check_ts_names(transcript) ==
    IF ~HasTok(transcript, TagToks) THEN <<>>
    ELSE (IF other_names(transcript) # {"and"}
          THEN <<WARN_LOWER, NL>> ELSE <<>>)
         \o (IF ~(capital_names(transcript) \subseteq speaker_tags)
             THEN <<WARN_NAMES, NL>> ELSE <<>>)

COMMENT_OPEN == "<!--"

process_errors(text) ==
    LET errors_comments == check_ts_names(text)
    IN  IF errors_comments # <<>>
        THEN <<COMMENT_OPEN>> \o errors_comments \o <<COMMENT_CLOSE, NL, NL>>
                 \o text
        ELSE text

----------------------------------------------------------------------------
(* YoutubeTranscript.process_transcript                                    *)

MaxCaptions == 3

LDQUO == "{ldquo}"
RDQUO == "{rdquo}"
LSQUO == "{lsquo}"
RSQUO == "{rsquo}"

\* Step 2 on one token: curly quotes and apostrophes become straight ones
StraightTok(tok) ==
    CASE tok \in {LDQUO, RDQUO} -> QUOTE
      [] tok \in {LSQUO, RSQUO} -> "'"
      [] OTHER -> tok

StraightQuotes(text) == [j \in 1..Len(text) |-> StraightTok(text[j])]

\* Breakfinder(transcript=ts, ep=self.ep): __post_init__ run to its end
Breakfinder(text, prefix) ==
    LET r1 == find_break(text, FALSE, 1)
        r2 == IF ~r1.found THEN find_break(text, r1.found, 2) ELSE r1
        r3 == IF ~r2.found THEN find_break(text, r2.found, 3) ELSE r2
    IN  IF EndOfBreakDetected(r3.revised, text)
        THEN [revised_transcript |-> r3.revised, raised |-> FALSE]
        ELSE IF prefix = "M" /\ text # r3.revised
        THEN [revised_transcript |-> text, raised |-> FALSE]
        ELSE [revised_transcript |-> r3.revised, raised |-> TRUE]

CLEANUP == "{{cleanup|speaker tags not found}}"
TRANSCRIPT_NAV == "{{Transcript-Nav}}"
FORCETOC == "__FORCETOC__"
T_CAT == "Category:Transcripts"
T_DUPE_CAT == "Category:Transcripts with duplicate lines"

\* f'/{language}'
LanguageSuffix(lang) == IF lang = "fr" THEN <<"/fr">> ELSE <<"/en">>

\* Step 7: the two category names, each a sequence of pieces
CategoryNames(lang, marks) ==
    IF marks # <<>>
    THEN IF lang # DEFAULT_LANGUAGE
         THEN [t_cat |-> <<T_CAT>> \o LanguageSuffix(lang),
               t_dupe_cat |-> <<T_DUPE_CAT>> \o LanguageSuffix(lang)]
         ELSE [t_cat |-> <<T_CAT>>, t_dupe_cat |-> <<T_DUPE_CAT>>]
    ELSE [t_cat |-> <<T_CAT>>, t_dupe_cat |-> <<>>]

\* Step 7: navigation above and below, the category links at the end
WithNavigation(text, lang, marks) ==
    <<TRANSCRIPT_NAV, NL, FORCETOC, NL, NL>> \o text
        \o <<NL, TRANSCRIPT_NAV, NL>>
        \o <<"[[">> \o CategoryNames(lang, marks).t_cat \o <<"]]">>
        \o <<NL, "[[">> \o CategoryNames(lang, marks).t_dupe_cat \o <<"]]">>

\* any(tag in ts for tag in speaker_tags)
TagOccurs(text) == HasTok(text, TagToks)

\* mutant: the cleanup tag is added to every transcript
WithCleanupTag_Always(text) == <<CLEANUP, NL, NL>> \o text

\* Step 5: the cleanup tag goes before a transcript without speaker tags
WithCleanupTag(text) ==
    IF ~TagOccurs(text) THEN <<CLEANUP, NL, NL>> \o text ELSE text

\* the texts of the captions of one language
CaptionTexts ==
    {<<"MATT:", "Hello", "everybody">>,
     <<"LAURA:", LDQUO, "Hello", "everybody", RDQUO>>,
     <<"LAURA:", QUOTE, "hi">>,
     <<"hi", "&amp;">>,
     <<"Matt:", "hi">>,
     <<"(laughs)">>,
     <<"~ Critical Role ~">>,
     <<"~ flames ~">>,
     <<"MATT:", "go to break", NL, "MATT:", "Welcome back,">>}

\* captions k = 1, 2, ... start 1.5 seconds apart
StartOf(k) == 15 * (k - 1)

Timed(texts) == [k \in 1..Len(texts) |-> [text |-> texts[k], start |-> StartOf(k)]]

PtInit ==
    /\ captions \in {Timed(texts) : texts \in SeqUpTo(CaptionTexts, MaxCaptions)}
    /\ language \in Languages
    /\ ep_prefix \in Prefixes
    /\ ignore_break \in BOOLEAN
    /\ ts = <<>>
    /\ pt_dupe_lines = <<>>
    /\ pt_pc = "step1"

\* Step 1: combine lines and flag duplicates
CombineAndFlag ==
    /\ pt_pc = "step1"
    /\ LET r == process_captions(captions, language, pt_dupe_lines)
       IN  /\ ts' = r.transcript
           /\ pt_dupe_lines' = r.marks
    /\ pt_pc' = "step2"
    /\ UNCHANGED <<captions, language, ep_prefix, ignore_break>>
    /\ UNCHANGED ptRest

\* Step 2: replace curly quotes and apostrophes
ReplaceCurlyQuotes ==
    /\ pt_pc = "step2"
    /\ ts' = StraightQuotes(ts)
    /\ pt_pc' = "step3"
    /\ UNCHANGED <<captions, language, ep_prefix, ignore_break, pt_dupe_lines>>
    /\ UNCHANGED ptRest

\* Step 3: remove and replace html markup
WikifyMarkup ==
    /\ pt_pc = "step3"
    /\ ts' = wikify_html_string(ts)
    /\ pt_pc' = "step4"
    /\ UNCHANGED <<captions, language, ep_prefix, ignore_break, pt_dupe_lines>>
    /\ UNCHANGED ptRest

\* Step 4: comment out the break; the exception of Breakfinder ends the build
CommentOutBreak ==
    /\ pt_pc = "step4"
    /\ IF ~ignore_break /\ language = DEFAULT_LANGUAGE
       THEN LET b == Breakfinder(ts, ep_prefix)
            IN  IF b.raised
                THEN pt_pc' = "raised" /\ UNCHANGED ts
                ELSE pt_pc' = "step5" /\ ts' = b.revised_transcript
       ELSE pt_pc' = "step5" /\ UNCHANGED ts
    /\ UNCHANGED <<captions, language, ep_prefix, ignore_break, pt_dupe_lines>>
    /\ UNCHANGED ptRest

\* Step 5: add cleanup tag if no speaker tags found
TagForCleanup ==
    /\ pt_pc = "step5"
    /\ ts' = WithCleanupTag(ts)
    /\ pt_pc' = "step6"
    /\ UNCHANGED <<captions, language, ep_prefix, ignore_break, pt_dupe_lines>>
    /\ UNCHANGED ptRest

\* Step 6: add commented-out error messages to top of transcript
AddErrorComments ==
    /\ pt_pc = "step6"
    /\ ts' = process_errors(ts)
    /\ pt_pc' = "step7"
    /\ UNCHANGED <<captions, language, ep_prefix, ignore_break, pt_dupe_lines>>
    /\ UNCHANGED ptRest

\* Step 7: add navigation and category; process_transcript returns ts
AddNavigation ==
    /\ pt_pc = "step7"
    /\ ts' = WithNavigation(ts, language, pt_dupe_lines)
    /\ pt_pc' = "done"
    /\ UNCHANGED <<captions, language, ep_prefix, ignore_break, pt_dupe_lines>>
    /\ UNCHANGED ptRest

NextBuild ==
    \/ CombineAndFlag
    \/ ReplaceCurlyQuotes
    \/ WikifyMarkup
    \/ CommentOutBreak
    \/ TagForCleanup
    \/ AddErrorComments
    \/ AddNavigation

InitBuild == PtInit /\ PtRestIdle

SpecBuild == InitBuild /\ [][NextBuild]_vars

----------------------------------------------------------------------------
(* Properties of process_transcript                                        *)

\* the caption lines the duplicate detector was given in this build
BuildCaptionLines == divide_captions_by_speaker(captions)

\* C5: after a finished build, the text of every DuplicateMark recorded for
\* the language occurs in the finished transcript, token for token.
C5_MarkTextInTranscript ==
    (pt_pc = "done" /\ NoWrapAround(BuildCaptionLines)) =>
        \A m \in 1..Len(pt_dupe_lines) : Contains(ts, pt_dupe_lines[m].text)

\* whether a quotation is open after the lines from k on, given whether one
\* is open before them; a quote character that begins a line inside an open
\* quotation continues the quotation
RECURSIVE OpenAfter(_, _, _)
OpenAfter(lines, k, open) ==
    IF k > Len(lines) THEN open
    ELSE LET line == lines[k]
             n == IF open /\ Len(line) > 0 /\ line[1] = QUOTE
                  THEN QuoteCount(line) - 1 ELSE QuoteCount(line)
         IN  OpenAfter(lines, k + 1, IF n % 2 = 0 THEN open ELSE ~open)

RECURSIVE TotalQuotes(_)
TotalQuotes(lines) ==
    IF lines = <<>> THEN 0
    ELSE QuoteCount(Head(lines)) + TotalQuotes(Tail(lines))

\* no quotation of the input is left unterminated, whether or not a quote
\* character beginning a line is read as continuing the open quotation
NoUnterminatedQuote(lines) ==
    /\ ~OpenAfter(lines, 1, FALSE)
    /\ TotalQuotes(lines) % 2 = 0

\* the input begins with a speaker line and holds no intro cue, so that no
\* line of it is discarded
NothingDiscarded(lines) ==
    /\ Len(lines) > 0
    /\ SpeakerLine(lines[1])
    /\ \A k \in 1..Len(lines) : ~HasTok(lines[k], IntroCueToks)

\* C11: when no quotation of the input is left unterminated, the blocks
\* returned hold an even number of quote characters outside comments.
C11_QuoteBalance ==
    (sc_pc = "done" /\ NothingDiscarded(sc_lines)
         /\ NoUnterminatedQuote(sc_lines))
        => QuoteCount(sc_transcript) % 2 = 0

\* how many times sub occurs in text, and where it occurs first
Occurrences(text, sub) == {j \in 1..Len(text) : StartsAt(text, j, sub)}

FirstPos(text, sub) == MinOf(Occurrences(text, sub))

\* C12: of two input lines whose text each occurs once in the returned
\* transcript, the earlier line occurs before the later one.
C12_OrderPreserved ==
    sc_pc = "done" =>
        \A k \in 1..Len(sc_lines) : \A j \in 1..Len(sc_lines) :
            (/\ k < j
             /\ sc_lines[k] # <<>> /\ sc_lines[j] # <<>>
             /\ Cardinality(Occurrences(sc_transcript, sc_lines[k])) = 1
             /\ Cardinality(Occurrences(sc_transcript, sc_lines[j])) = 1)
                => FirstPos(sc_transcript, sc_lines[k])
                       < FirstPos(sc_transcript, sc_lines[j])

----------------------------------------------------------------------------
(* divide_captions_by_speaker, one caption of the loop at a time           *)

MaxSplitCaptions == 3

\* the texts and the starts (in tenths of a second) of the captions
SplitTexts ==
    {<<"MATT:", "hi", NL, "LAURA:", "there">>,
     <<"hi", NL, "there">>,
     <<"MATT:", "hi", NL, "there">>,
     <<"hi", NL, "(laughs)">>,
     <<"(laughs)">>}

SplitStarts == {0, 15, 19}

SplitCaptions == [text : SplitTexts, start : SplitStarts]

LsInit ==
    /\ ls_captions \in SeqUpTo(SplitCaptions, MaxSplitCaptions)
    /\ ls_index = 1
    /\ ls_caption_lines = <<>>
    /\ ls_pc = "loop"

\* mutant: the sub-lines of a caption are appended last one first
DivideCaption_Reversed(caption) ==
    LET lines == SplitOnNL(caption.text)
        last == lines[Len(lines)]
    IN  IF Len(last) > 0 /\ last[1] \in (TwoUpperToks \cup ParenOpenToks)
        THEN [k \in 1..Len(lines) |->
                 <<lines[Len(lines) + 1 - k], IntStart(caption.start)>>]
        ELSE << <<WithoutNL(caption.text), IntStart(caption.start)>> >>

\* the lines one iteration of the loop appends to caption_lines
DividedLines(caption) == DivideCaption(caption)

\* the start time of a (line, starttime) pair
LineStart(pair) == pair[2]

\* one iteration of "for i, line in enumerate(captions)"
DivideNext ==
    /\ ls_pc = "loop"
    /\ ls_index <= Len(ls_captions)
    /\ ls_caption_lines' = ls_caption_lines \o DividedLines(ls_captions[ls_index])
    /\ ls_index' = ls_index + 1
    /\ UNCHANGED <<ls_captions, ls_pc>>
    /\ UNCHANGED lsRest

\* return caption_lines
DivideReturn ==
    /\ ls_pc = "loop"
    /\ ls_index > Len(ls_captions)
    /\ ls_pc' = "done"
    /\ UNCHANGED <<ls_captions, ls_index, ls_caption_lines>>
    /\ UNCHANGED lsRest

NextSplit ==
    \/ DivideNext
    \/ DivideReturn

InitSplit == LsInit /\ LsRestIdle

SpecSplit == InitSplit /\ [][NextSplit]_vars

----------------------------------------------------------------------------
(* Properties of divide_captions_by_speaker                                *)

\* the captions are given in non-decreasing start order
StartsSorted(caps) ==
    \A k \in 1..Len(caps) : \A j \in 1..Len(caps) :
        k < j => caps[k].start <= caps[j].start

\* the tokens of the lines, one line after the other
RECURSIVE LineTokens(_)
LineTokens(cl) ==
    IF cl = <<>> THEN <<>> ELSE Head(cl)[1] \o LineTokens(Tail(cl))

\* the tokens of the caption texts without their newlines, in caption order
RECURSIVE CaptionTokens(_)
CaptionTokens(caps) ==
    IF caps = <<>> THEN <<>>
    ELSE WithoutNL(Head(caps).text) \o CaptionTokens(Tail(caps))

\* C13: for captions in non-decreasing start order the lines appended so far
\* have non-decreasing start times, and they hold the words of the captions
\* processed so far in the order of the captions and of their sub-lines.
C13_OrderPreservation ==
    StartsSorted(ls_captions) =>
        /\ \A k \in 1..Len(ls_caption_lines) :
               \A j \in 1..Len(ls_caption_lines) :
                   k < j => LineStart(ls_caption_lines[k])
                                <= LineStart(ls_caption_lines[j])
        /\ LineTokens(ls_caption_lines)
               = CaptionTokens(SubSeq(ls_captions, 1, ls_index - 1))

\* a sorted input with captions of different starts, one of which was split
\* into its sub-lines, has been divided
C13_Witness ==
    /\ ls_pc = "done"
    /\ StartsSorted(ls_captions)
    /\ Len(ls_captions) >= 2
    /\ ls_captions[1].start < ls_captions[Len(ls_captions)].start
    /\ Len(ls_caption_lines) > Len(ls_captions)
    /\ \E k \in 1..Len(ls_captions) : Count(ls_captions[k].text, NL) > 0

----------------------------------------------------------------------------
(* YoutubeTranscript.download_and_build_transcript                         *)

MaxBuilds == 2

\* process_transcript as one function: Steps 1 to 7
process_transcript(caps, lang, prefix, ignore, marks) ==
    LET r == process_captions(caps, lang, marks)
        t3 == wikify_html_string(StraightQuotes(r.transcript))
        b == IF ~ignore /\ lang = DEFAULT_LANGUAGE
             THEN Breakfinder(t3, prefix)
             ELSE [revised_transcript |-> t3, raised |-> FALSE]
        t4 == b.revised_transcript
        t5 == WithCleanupTag(t4)
    IN  [raised |-> b.raised,
         ts |-> WithNavigation(process_errors(t5), lang, r.marks),
         marks |-> r.marks]

\* the caption tracks a video or a cached file can hold
TrackCaptions ==
    {<<>>,
     Timed(<< <<"MATT:", "Hello", "everybody">> >>),
     Timed(<< <<"LAURA:", QUOTE, "hi">>, <<"hi", "&amp;">>, <<"hi", "&amp;">> >>)}

\* a track, a file or a dictionary entry that may be missing
Missing == [found |-> FALSE, value |-> <<>>]

Present(v) == [found |-> TRUE, value |-> v]

Maybe(S) == {Missing} \cup {Present(v) : v \in S}

\* ep.prefix and ignore_break of the object that builds
DbPrefix == "3"

DbIgnoreBreak == FALSE

DbInit ==
    /\ yt_manual \in Maybe(TrackCaptions \ {<<>>})
    /\ yt_generated \in Maybe(TrackCaptions \ {<<>>})
    /\ json_file \in Maybe(TrackCaptions)
    /\ try_local_file \in BOOLEAN
    /\ force_redownload \in BOOLEAN
    /\ write_ts_file \in BOOLEAN
    /\ db_language \in Languages
    /\ has_captions_dict = FALSE
    /\ captions_dict = Missing
    /\ transcript_dict = Missing
    /\ db_dupe_lines = <<>>
    /\ local_captions = Missing
    /\ db_reported = FALSE
    /\ db_stored = <<>>
    /\ db_calls = 0
    /\ db_pc = "ready"

\* download_and_build_transcript is called; captions_dict is created if
\* the object has none
CallDownloadAndBuild ==
    /\ db_pc \in {"ready", "returned"}
    /\ db_calls < MaxBuilds
    /\ db_calls' = db_calls + 1
    /\ has_captions_dict' = TRUE
    /\ local_captions' = Missing
    /\ db_pc' = "local"
    /\ UNCHANGED <<yt_manual, yt_generated, json_file, try_local_file,
                   force_redownload, write_ts_file, db_language, captions_dict,
                   transcript_dict, db_dupe_lines, db_reported, db_stored>>
    /\ UNCHANGED dbRest

\* if self.try_local_file: try create_from_json_file except FileNotFoundError
TryLocalFile ==
    /\ db_pc = "local"
    /\ IF try_local_file /\ json_file.found
       THEN /\ local_captions' = Present(json_file.value)
            /\ captions_dict' = Present(json_file.value)
       ELSE UNCHANGED <<local_captions, captions_dict>>
    /\ db_pc' = "download"
    /\ UNCHANGED <<yt_manual, yt_generated, json_file, try_local_file,
                   force_redownload, write_ts_file, db_language,
                   has_captions_dict, transcript_dict, db_dupe_lines,
                   db_reported, db_stored, db_calls>>
    /\ UNCHANGED dbRest

\* not self.captions_dict.get(language): no entry, or an empty list
NoCaptionsYet == ~captions_dict.found \/ captions_dict.value = <<>>

\* the track captions_download finds: the manual one before the generated one
FoundTrack == IF yt_manual.found THEN yt_manual ELSE yt_generated

\* if not self.captions_dict.get(language) or self.force_redownload is True:
\* captions = self.captions_download(language); its "return captions" reads
\* a local that is not bound when no track was found
DownloadCaptions ==
    /\ db_pc = "download"
    /\ IF NoCaptionsYet \/ force_redownload
       THEN IF FoundTrack.found
            THEN /\ local_captions' = Present(FoundTrack.value)
                 /\ captions_dict' = Present(FoundTrack.value)
                 /\ json_file' = IF write_ts_file
                                 THEN Present(FoundTrack.value) ELSE json_file
                 /\ db_pc' = "store"
                 /\ UNCHANGED db_reported
            ELSE /\ db_reported' = TRUE
                 /\ db_pc' = "raised"
                 /\ UNCHANGED <<local_captions, captions_dict, json_file>>
       ELSE /\ db_pc' = "store"
            /\ UNCHANGED <<local_captions, captions_dict, json_file, db_reported>>
    /\ UNCHANGED <<yt_manual, yt_generated, try_local_file,
                   force_redownload, write_ts_file, db_language,
                   has_captions_dict, transcript_dict, db_dupe_lines,
                   db_stored, db_calls>>
    /\ UNCHANGED dbRest

\* self.captions_dict[language] = captions: the local may not be bound
StoreCaptions ==
    /\ db_pc = "store"
    /\ IF local_captions.found
       THEN /\ captions_dict' = local_captions
            /\ db_pc' = "build"
       ELSE /\ db_pc' = "raised"
            /\ UNCHANGED captions_dict
    /\ UNCHANGED <<yt_manual, yt_generated, json_file, try_local_file,
                   force_redownload, write_ts_file, db_language,
                   has_captions_dict, transcript_dict, db_dupe_lines,
                   local_captions, db_reported, db_stored, db_calls>>
    /\ UNCHANGED dbRest

\* self.transcript_dict[language] = self.process_transcript(language=language)
BuildTranscript ==
    /\ db_pc = "build"
    /\ LET r == process_transcript(captions_dict.value, db_language, DbPrefix,
                                   DbIgnoreBreak, db_dupe_lines)
       IN  /\ db_dupe_lines' = r.marks
           /\ IF r.raised
              THEN /\ db_pc' = "raised"
                   /\ UNCHANGED <<transcript_dict, db_stored>>
              ELSE /\ transcript_dict' = Present(r.ts)
                   /\ db_stored' = Append(db_stored, r.ts)
                   /\ db_pc' = "returned"
    /\ UNCHANGED <<yt_manual, yt_generated, json_file, try_local_file,
                   force_redownload, write_ts_file, db_language,
                   has_captions_dict, captions_dict, local_captions,
                   db_reported, db_calls>>
    /\ UNCHANGED dbRest

NextDownload ==
    \/ CallDownloadAndBuild
    \/ TryLocalFile
    \/ DownloadCaptions
    \/ StoreCaptions
    \/ BuildTranscript

InitDownload == DbInit /\ DbRestIdle

SpecDownload == InitDownload /\ [][NextDownload]_vars

----------------------------------------------------------------------------
(* Properties of download_and_build_transcript                             *)

\* a call of download_and_build_transcript has ended, by return or by raise
CallEnded == db_pc \in {"returned", "raised"}

\* the video has no track of the language and no cached file exists
NoTrackNoCache == ~yt_manual.found /\ ~yt_generated.found /\ ~json_file.found

\* the transcript of no captions: an empty body inside the furniture
EmptyTranscript(lang) ==
    process_transcript(<<>>, lang, DbPrefix, DbIgnoreBreak, <<>>).ts

\* C14: with no track and no cached file, the first call reports the missing
\* track, returns without raising and stores the transcript of an empty body.
C14_MissingTrackNotFatal ==
    (db_calls = 1 /\ CallEnded /\ NoTrackNoCache) =>
        /\ db_pc = "returned"
        /\ db_reported
        /\ transcript_dict = Present(EmptyTranscript(db_language))

\* C15: when the first call has returned, a second call for the same
\* language returns as well and stores the transcript the first call stored.
C15_RebuildIdempotent ==
    (db_calls = 2 /\ CallEnded /\ Len(db_stored) >= 1) =>
        /\ db_pc = "returned"
        /\ Len(db_stored) = 2
        /\ db_stored[2] = db_stored[1]

----------------------------------------------------------------------------
(* DuplicateProcessor.process_duplicates (src/dupes.py)                    *)

MaxReviewBlocks == 2

MaxReviewRuns == 2

\* the blocks of the transcripts under review
ReviewBlocks ==
    {<<"MATT:", "Hello">>,
     <<"MATT:", "Hello", "everybody">>
         \o WrapDuplicate(<<"MATT:", "Hello", "everybody">>),
     <<"LAURA:", "there", "hi", "&">> \o WrapDuplicate(<<"hi", "&">>),
     <<"LAURA:", "there", "hi", "&">> \o WrapDuplicate(<<"hi", "&">>)
         \o WrapDuplicate(<<"hi", "&">>)}

\* the positions at which a duplicate comment opens, and the n-th of them
MarkPositions(text) ==
    {p \in 1..Len(text) : text[p] = DUPLICATE_OPEN /\ CloseOf(text, p) # 0}

RECURSIVE NthMin(_, _)
NthMin(S, n) == IF n = 1 THEN MinOf(S) ELSE NthMin(S \ {MinOf(S)}, n - 1)

\* the marks a build recorded for the transcript: text and start time
MarksOf(text) ==
    [n \in 1..Cardinality(MarkPositions(text)) |->
        LET p == NthMin(MarkPositions(text), n)
        IN  <<SubSeq(text, p, CloseOf(text, p)), 2 * n>>]

\* line.replace('<!-- DUPLICATE ', '').replace('-->', '')
RECURSIVE Unwrapped(_)
Unwrapped(line) ==
    IF line = <<>> THEN <<>>
    ELSE IF Head(line) \in {DUPLICATE_OPEN, COMMENT_CLOSE}
    THEN Unwrapped(Tail(line))
    ELSE <<Head(line)>> \o Unwrapped(Tail(line))

\* t.transcript.replace(line[0], line[1]).replace('  ', ' '); the blanks are
\* implicit between tokens, so the second replace leaves the tokens alone
ReplacePair(text, pair) == Replace(text, pair[1], pair[2])

\* for line in line_pairs: t.transcript = ...
RECURSIVE ApplyPairs(_, _)
ApplyPairs(text, pairs) ==
    IF pairs = <<>> THEN text
    ELSE ApplyPairs(ReplacePair(text, Head(pairs)), Tail(pairs))

\* '[[Category:Transcripts with duplicate lines]]'
DUPE_CATEGORY_LINK == <<"[[", T_DUPE_CAT, "]]">>

\* mutant: the link is removed whether or not a DUPLICATE is left
StripCategory_Always(text) == Replace(text, DUPE_CATEGORY_LINK, <<>>)

\* if 'DUPLICATE' not in new_ts.transcript: the link is replaced by ''
StripCategory(text) ==
    IF ~HasTok(text, {DUPLICATE_OPEN})
    THEN Replace(text, DUPE_CATEGORY_LINK, <<>>)
    ELSE text

RvInit ==
    /\ rv_transcript \in
           {JoinWith(bs, <<NL, NL>>) \o tail :
               bs \in SeqUpTo(ReviewBlocks, MaxReviewBlocks) \ {<<>>},
               tail \in {<<>>, <<NL>> \o DUPE_CATEGORY_LINK}}
    /\ rv_dupe_lines = MarksOf(rv_transcript)
    /\ rv_index = 1
    /\ line_pairs = <<>>
    /\ rv_pc = "loop"
    /\ rv_run = 1
    /\ rv_start = rv_transcript
    /\ rv_decided = <<>>
    /\ rv_prompted = {}
    /\ rv_cancelled = FALSE
    /\ rv_first = [decided |-> {}, saved |-> <<>>]
    /\ rv_saved = FALSE
    /\ rv_page = <<>>

\* the mark of the current iteration and whether the user is asked about it
CurrentLine == rv_dupe_lines[rv_index][1]

AtPrompt ==
    /\ rv_pc = "loop"
    /\ rv_index <= Len(rv_dupe_lines)
    /\ Contains(rv_transcript, CurrentLine)

\* if line not in t.transcript: continue
SkipMissing ==
    /\ rv_pc = "loop"
    /\ rv_index <= Len(rv_dupe_lines)
    /\ ~Contains(rv_transcript, CurrentLine)
    /\ rv_index' = rv_index + 1
    /\ UNCHANGED <<rv_transcript, rv_dupe_lines, line_pairs, rv_pc, rv_run,
                   rv_start, rv_decided, rv_prompted, rv_cancelled, rv_first, rv_saved,
                   rv_page>>
    /\ UNCHANGED rvRest

\* line_pairs.append((line, new_line)) for the answer given
Decide(delete) ==
    /\ line_pairs' = Append(line_pairs,
                            <<CurrentLine,
                              IF delete THEN <<>> ELSE Unwrapped(CurrentLine)>>)
    /\ rv_decided' = Append(rv_decided, [mark |-> rv_index, delete |-> delete])
    /\ rv_prompted' = rv_prompted \cup {rv_index}
    /\ rv_index' = rv_index + 1
    /\ rv_pc' = "loop"
    /\ UNCHANGED <<rv_transcript, rv_dupe_lines, rv_run, rv_start,
                   rv_cancelled, rv_first, rv_saved,
                   rv_page>>
    /\ UNCHANGED rvRest

\* input_choice answered 'Y'
AnswerYes == AtPrompt /\ Decide(TRUE)

\* input_choice answered 'N'
AnswerNo == AtPrompt /\ Decide(FALSE)

\* input_choice answered 'C': the video link is shown, input_yn follows
AnswerCheck ==
    /\ AtPrompt
    /\ rv_pc' = "check"
    /\ rv_prompted' = rv_prompted \cup {rv_index}
    /\ UNCHANGED <<rv_transcript, rv_dupe_lines, rv_index, line_pairs, rv_run,
                   rv_start, rv_decided, rv_cancelled, rv_first, rv_saved,
                   rv_page>>
    /\ UNCHANGED rvRest

\* input_yn answered after the video was checked
CheckYes == rv_pc = "check" /\ Decide(TRUE)

CheckNo == rv_pc = "check" /\ Decide(FALSE)

\* QuitKeyboardInterrupt at one of the two prompts
QuitReview ==
    /\ AtPrompt \/ rv_pc = "check"
    /\ rv_prompted' = rv_prompted \cup {rv_index}
    /\ rv_cancelled' = TRUE
    /\ rv_pc' = IF line_pairs # <<>> THEN "save" ELSE "done"
    /\ UNCHANGED <<rv_transcript, rv_dupe_lines, rv_index, line_pairs, rv_run,
                   rv_start, rv_decided, rv_first, rv_saved,
                   rv_page>>
    /\ UNCHANGED rvRest

\* the loop is over: every pair is applied
FinishReview ==
    /\ rv_pc = "loop"
    /\ rv_index > Len(rv_dupe_lines)
    /\ rv_transcript' = ApplyPairs(rv_transcript, line_pairs)
    /\ rv_pc' = "done"
    /\ rv_saved' = (line_pairs # <<>>)
    /\ UNCHANGED <<rv_dupe_lines, rv_index, line_pairs, rv_run, rv_start,
                   rv_decided, rv_prompted, rv_cancelled, rv_first,
                   rv_page>>
    /\ UNCHANGED rvRest

\* 'Save changes so far?' answered yes
SaveYes ==
    /\ rv_pc = "save"
    /\ rv_transcript' = ApplyPairs(rv_transcript, line_pairs)
    /\ rv_pc' = "done"
    /\ rv_saved' = (line_pairs # <<>>)
    /\ UNCHANGED <<rv_dupe_lines, rv_index, line_pairs, rv_run, rv_start,
                   rv_decided, rv_prompted, rv_cancelled, rv_first,
                   rv_page>>
    /\ UNCHANGED rvRest

\* 'Save changes so far?' answered no
SaveNo ==
    /\ rv_pc = "save"
    /\ rv_pc' = "done"
    /\ UNCHANGED <<rv_transcript, rv_dupe_lines, rv_index, line_pairs, rv_run,
                   rv_start, rv_decided, rv_prompted, rv_cancelled, rv_first, rv_saved,
                   rv_page>>
    /\ UNCHANGED rvRest

\* QuitKeyboardInterrupt at 'Save changes so far?' leaves the function
SaveQuit ==
    /\ rv_pc = "save"
    /\ rv_pc' = "raised"
    /\ UNCHANGED <<rv_transcript, rv_dupe_lines, rv_index, line_pairs, rv_run,
                   rv_start, rv_decided, rv_prompted, rv_cancelled, rv_first, rv_saved,
                   rv_page>>
    /\ UNCHANGED rvRest

\* the marks whose decision the run that ended has written to the transcript
AppliedMarks ==
    IF rv_saved THEN {rv_decided[k].mark : k \in 1..Len(rv_decided)} ELSE {}

\* process_duplicates is run again over the transcript the run before left
RunAgain ==
    /\ rv_pc \in {"done", "put"}
    /\ rv_run < MaxReviewRuns
    /\ rv_run' = rv_run + 1
    /\ rv_first' = IF rv_run = 1
                   THEN [decided |-> AppliedMarks, saved |-> rv_transcript]
                   ELSE rv_first
    /\ rv_index' = 1
    /\ line_pairs' = <<>>
    /\ rv_pc' = "loop"
    /\ rv_start' = rv_transcript
    /\ rv_decided' = <<>>
    /\ rv_prompted' = {}
    /\ rv_cancelled' = FALSE
    /\ rv_saved' = FALSE
    /\ rv_page' = <<>>
    /\ UNCHANGED <<rv_transcript, rv_dupe_lines>>
    /\ UNCHANGED rvRest

\* DupeDetectionBot.process_duplicates after the review has returned: the
\* maintenance category is removed if no DUPLICATE is left, the text is saved
PutCurrent ==
    /\ rv_pc = "done"
    /\ rv_transcript' = StripCategory(rv_transcript)
    /\ rv_page' = StripCategory(rv_transcript)
    /\ rv_pc' = "put"
    /\ UNCHANGED <<rv_dupe_lines, rv_index, line_pairs, rv_run, rv_start,
                   rv_decided, rv_prompted, rv_cancelled, rv_first, rv_saved>>
    /\ UNCHANGED rvRest

NextReview ==
    \/ SkipMissing
    \/ AnswerYes
    \/ AnswerNo
    \/ AnswerCheck
    \/ CheckYes
    \/ CheckNo
    \/ QuitReview
    \/ FinishReview
    \/ SaveYes
    \/ SaveNo
    \/ SaveQuit
    \/ PutCurrent
    \/ RunAgain

InitReview == RvInit /\ RvRestIdle

SpecReview == InitReview /\ [][NextReview]_vars

----------------------------------------------------------------------------
(* Properties of process_duplicates                                        *)

\* the decision of the current run about the n-th mark, if there is one
DecisionsOn(n) == {k \in 1..Len(rv_decided) : rv_decided[k].mark = n}

\* the text in which the n-th, (n+1)-th ... duplicate comments from token p
\* on are resolved each by its own decision: a deleted mark is removed, a
\* kept mark loses its wrapper, a mark without a decision stays as it is
RECURSIVE ResolvedFrom(_, _, _)
ResolvedFrom(text, p, n) ==
    IF p > Len(text) THEN <<>>
    ELSE IF text[p] = DUPLICATE_OPEN /\ CloseOf(text, p) # 0
    THEN LET q == CloseOf(text, p)
             rest == ResolvedFrom(text, q + 1, n + 1)
         IN  IF DecisionsOn(n) = {} THEN SubSeq(text, p, q) \o rest
             ELSE IF rv_decided[CHOOSE k \in DecisionsOn(n) : TRUE].delete
             THEN rest
             ELSE SubSeq(text, p + 1, q - 1) \o rest
    ELSE <<text[p]>> \o ResolvedFrom(text, p + 1, n)

\* the first run was cancelled and has ended
FirstRunCancelled == rv_run = 1 /\ rv_pc = "done" /\ rv_cancelled

\* the marks the first run made no decision about
Unreviewed == {n \in 1..Len(rv_dupe_lines) : DecisionsOn(n) = {}}

\* C16: after a first run that was interrupted, every mark it did not review
\* is still in the transcript word for word; and the second run shows no
\* mark again whose decision the first run wrote to the transcript.
C16_ReentrantReview ==
    /\ FirstRunCancelled =>
           \A n \in Unreviewed : Contains(rv_transcript, rv_dupe_lines[n][1])
    /\ rv_run = 2 => rv_prompted \cap rv_first.decided = {}

\* C17: when the first run is cancelled, the transcript is the one the run
\* started with unless a decision was made and saving was confirmed; then
\* each decided mark, and no other, is removed or unwrapped as decided.
C17_CancelKeepsDecisions ==
    FirstRunCancelled =>
        IF rv_saved
        THEN rv_transcript = ResolvedFrom(rv_start, 1, 1)
        ELSE rv_transcript = rv_start

----------------------------------------------------------------------------
(* Properties of the assembly steps of process_transcript                  *)

\* Step 5 is over
CleanupDecided == pt_pc \in {"step6", "step7", "done"}

\* the navigation lines Step 7 puts before the transcript
NavigationHead == <<TRANSCRIPT_NAV, NL, FORCETOC, NL, NL>>

\* C18: once Step 5 is over, the transcript holds the cleanup flag exactly
\* when no speaker tag occurs in it, and the flag stands at its beginning
\* (in the finished document: right after the navigation lines).
C18_CleanupFlag ==
    CleanupDecided =>
        /\ HasTok(ts, {CLEANUP}) <=> ~TagOccurs(ts)
        /\ (HasTok(ts, {CLEANUP}) /\ pt_pc # "done")
               => StartsAt(ts, 1, <<CLEANUP, NL, NL>>)
        /\ (HasTok(ts, {CLEANUP}) /\ pt_pc = "done")
               => StartsAt(ts, Len(NavigationHead) + 1, <<CLEANUP, NL, NL>>)

\* a finished document of lines without speaker tag carries the flag
C18_Witness ==
    /\ pt_pc = "done"
    /\ Len(captions) >= 2
    /\ HasTok(ts, {"hi"})
    /\ HasTok(ts, {CLEANUP})

\* a word before the colon of some line that the validator is claimed to
\* object to: one not in capitals other than 'and', or one in capitals that
\* is no speaker tag
ObjectionableNames(text) ==
    {x \in TranscriptNames(text) :
        \/ (x \notin BoundedUpperWords /\ x # "and")
        \/ (x \in BoundedUpperWords /\ x \notin speaker_tags)}

\* C19: Step 6 puts a warning comment before a transcript that holds a
\* speaker tag exactly when some word before a colon is objectionable, and
\* otherwise leaves the transcript as it is.
C19_WarningIffBadName ==
    [][(pt_pc = "step6" /\ TagOccurs(ts)) =>
          ((ts' # ts) <=> (ObjectionableNames(ts) # {}))]_vars

\* text.endswith(suffix)
EndsWith(text, suffix) ==
    /\ Len(suffix) <= Len(text)
    /\ SubSeq(text, Len(text) - Len(suffix) + 1, Len(text)) = suffix

\* the link to the category of the show, and the links to the maintenance
\* category with and without the language
ShowLink == <<"[[", T_CAT, "]]">>

DupeLinks(lang) ==
    {<<"[[", T_DUPE_CAT, "]]">>,
     <<"[[", T_DUPE_CAT>> \o LanguageSuffix(lang) \o <<"]]">>}

\* C20: the finished document ends with the link to the category of the
\* show, followed by the link to the maintenance category exactly when a
\* DuplicateMark was recorded; without a mark nothing follows the link to
\* the category of the show, which is the same link in both cases.
C20_CategoryLinks ==
    pt_pc = "done" =>
        IF pt_dupe_lines # <<>>
        THEN \E link \in DupeLinks(language) :
                 EndsWith(ts, ShowLink \o <<NL>> \o link)
        ELSE EndsWith(ts, ShowLink)

\* C24 (as claimed): the first line of the input is never marked as a
\* duplicate, whatever the other lines are.
C24_FirstLineNeverMarked ==
    (dd_run = 1 /\ caption_lines # <<>> /\ caption_lines[1][1] # <<>>) =>
        preprocessed_captions[1] = caption_lines[1][1]

----------------------------------------------------------------------------
(* The cascade of Breakfinder.                                             *)

\* the first of the detectors 1..n that accepts some line, 0 when none does
FirstDetector(n) ==
    IF {fn \in 1..n : Detects(fn) # {}} = {} THEN 0
    ELSE MinOf({fn \in 1..n : Detects(fn) # {}})

\* the transcript with the markers of detector fn alone
MarkedBy(fn) ==
    IF fn = 0 THEN bf_transcript
    ELSE find_break(bf_transcript, FALSE, fn).revised

\* how many detectors have had their turn at each position
TurnsTaken ==
    CASE bf_pc = "fallbackA" -> 1
      [] bf_pc = "fallbackB" -> 2
      [] bf_pc = "assert" -> 3
      [] OTHER -> 0

\* C25: the detectors take their turns in the order primary, fallback A,
\* fallback B; after each turn the result holds the markers of the first
\* detector that found a begin, and a begin counts as found exactly when
\* one of the detectors tried so far accepts a line.
C25_CascadeOrder ==
    TurnsTaken > 0 =>
        /\ revised_transcript = MarkedBy(FirstDetector(TurnsTaken))
        /\ break_found = (FirstDetector(TurnsTaken) # 0)

C25_Witness ==
    /\ bf_pc = "assert"
    /\ FirstDetector(3) = 2
    /\ Detects(3) # {}
    /\ MarkedBy(2) # MarkedBy(3)
    /\ revised_transcript # bf_transcript

----------------------------------------------------------------------------
(* The split rule of divide_captions_by_speaker.                           *)

\* the text has a newline and the sub-line after its last newline begins
\* with two upper-case letters or an opening parenthesis
LastSublineFresh(text) ==
    /\ Count(text, NL) > 0
    /\ LET p == CHOOSE j \in 1..Len(text) :
                    text[j] = NL /\ \A i \in (j + 1)..Len(text) : text[i] # NL
       IN  p < Len(text) /\ text[p + 1] \in (TwoUpperToks \cup ParenOpenToks)

\* the lines appended by the step that processes the caption at ls_index
Added == SubSeq(ls_caption_lines', Len(ls_caption_lines) + 1,
                Len(ls_caption_lines'))

\* C26: a caption with newlines gives one line per sub-line exactly when
\* its last sub-line begins with two upper-case letters or an opening
\* parenthesis, and otherwise one line with the newlines taken out; every
\* line carries the start of its caption in whole seconds, and there are
\* never fewer lines than captions processed.
C26_SplitRule ==
    [][(ls_pc = "loop" /\ ls_index <= Len(ls_captions)) =>
         LET c == ls_captions[ls_index]
         IN  /\ Len(ls_caption_lines') >= ls_index
             /\ \A k \in 1..Len(Added) : Added[k][2] = c.start \div 10
             /\ Count(c.text, NL) > 0 =>
                  IF LastSublineFresh(c.text)
                  THEN /\ Len(Added) = Count(c.text, NL) + 1
                       /\ JoinLines([k \in 1..Len(Added) |-> Added[k][1]])
                            = c.text
                  ELSE /\ Len(Added) = 1
                       /\ Added[1][1] = WithoutNL(c.text)]_vars

\* a caption was split into its sub-lines and another was flattened
C26_Witness ==
    /\ ls_pc = "done"
    /\ \E k \in 1..Len(ls_captions) : LastSublineFresh(ls_captions[k].text)
    /\ \E k \in 1..Len(ls_captions) :
          /\ Count(ls_captions[k].text, NL) > 0
          /\ ~LastSublineFresh(ls_captions[k].text)
          /\ ls_captions[k].start \div 10 > 0
    /\ Len(ls_caption_lines) > Len(ls_captions)

----------------------------------------------------------------------------
(* The intro of combine_preprocessed_captions.                             *)

\* before the intro 0, during the intro 1, after the intro 2
IntroRank == IF during_intro THEN 1 ELSE IF intro_done THEN 2 ELSE 0

\* the index of the first line that holds an intro cue; 0 when none does
FirstCue ==
    IF \E k \in 1..Len(sc_lines) : HasTok(sc_lines[k], IntroCueToks)
    THEN MinOf({k \in 1..Len(sc_lines) : HasTok(sc_lines[k], IntroCueToks)})
    ELSE 0

\* C22: the combiner never goes back to an earlier intro state, intro_done
\* is set only by leaving the intro, and the returned transcript holds the
\* Part I heading once when the intro was left and not at all otherwise.
C22_IntroOnce ==
    [][/\ IntroRank' >= IntroRank
       /\ (intro_done' /\ ~intro_done) => (during_intro /\ ~during_intro')
       /\ (sc_pc' = "done" /\ sc_pc = "loop") =>
             Count(sc_transcript', PART_I)
                = IF intro_done /\ ~CombineStart(sc_language).intro_done
                  THEN 1 ELSE 0]_vars

\* the intro was left, and a later line that holds an intro cue did not
\* start it again
C22_Witness ==
    /\ sc_pc = "done"
    /\ IntroRank = 2
    /\ Count(sc_transcript, PART_I) = 1
    /\ FirstCue # 0
    /\ \E k \in (FirstCue + 2)..Len(sc_lines) :
          HasTok(sc_lines[k], IntroCueToks)

\* C23 (as claimed): when a line after the first intro cue says welcome back
\* or holds no music, the combiner has left the intro when it returns.
C23_IntroLeft ==
    (/\ sc_pc = "done"
     /\ sc_language = DEFAULT_LANGUAGE
     /\ FirstCue # 0
     /\ \E j \in (FirstCue + 1)..Len(sc_lines) :
           welcome_back(sc_lines[j]) \/ ~HasTok(sc_lines[j], MusicToks))
        => IntroRank = 2

\* C27 (as claimed): when no line holds an intro cue, every line of the
\* input that is not empty occurs in the returned transcript (without the
\* quote character it begins with, when that one was taken for the
\* continuation of an open quotation).
C27_NoLineDropped ==
    (sc_pc = "done" /\ FirstCue = 0) =>
        \A k \in 1..Len(sc_lines) :
            sc_lines[k] # <<>> =>
                \/ Contains(sc_transcript, sc_lines[k])
                \/ /\ sc_lines[k][1] = QUOTE
                   /\ Contains(sc_transcript, Tail(sc_lines[k]))

\* the document holds a warning of the name validator
Warned(text) == HasTok(text, {WARN_LOWER, WARN_NAMES})

\* C28: Step 6 adds nothing to a transcript in which no speaker tag occurs,
\* and no transcript or finished document holds both the cleanup flag and
\* a warning of the name validator.
C28_CleanupExcludesWarning ==
    [][/\ (pt_pc = "step6" /\ ~TagOccurs(ts)) => ts' = ts
       /\ ~(HasTok(ts', {CLEANUP}) /\ Warned(ts'))]_vars

\* a finished document with the cleanup flag whose lines have a word before
\* a colon that the validator would object to
C28_Witness ==
    /\ pt_pc = "done"
    /\ HasTok(ts, {CLEANUP})
    /\ ~Warned(ts)
    /\ other_names(ts) # {"and"}
    /\ other_names(ts) # {}

\* the marks a build of the stored captions detects by itself
MarksOfBuild ==
    process_transcript(captions_dict.value, db_language, DbPrefix,
                       DbIgnoreBreak, <<>>).marks

\* C29 (as claimed): when a build has returned, the DuplicateMark list of
\* the language holds the marks that build detected, and no others.
C29_MarksOfLastBuild ==
    db_pc = "returned" => db_dupe_lines = MarksOfBuild

----------------------------------------------------------------------------
(* The maintenance category after a review.                                *)

----------------------------------------------------------------------------
(* Transcript.flag_duplicates (src/transcript.py) on one line that holds   *)
(* no music and stands outside the break                                   *)

MaxNgramWords == 8

\* ngram_min of text_to_ngram_dict
NGRAM_MIN == 4

POTENTIAL_DUPLICATE == "<!-- potential duplicate -->"
NOT_A_DUPLICATE == "<!-- should not be a duplicate -->"

\* the words of the lines; no word is part of another. The words that begin
\* in lower case and the words that end with '!', '?' or '.'
NgramWords == {"I", "said", "Watch", "out!"}
LowerStartWords == {"said", "out!"}
TerminalWords == {"out!"}

\* the places at which sub stands in text
FoundAt(text, sub) == {p \in 1..Len(text) : StartsAt(text, p, sub)}

\* text.find(sub) and text.rfind(sub), counted from 1; 0 when sub is absent
Find(text, sub) ==
    IF FoundAt(text, sub) = {} THEN 0 ELSE MinOf(FoundAt(text, sub))

RFind(text, sub) ==
    IF FoundAt(text, sub) = {} THEN 0
    ELSE CHOOSE p \in FoundAt(text, sub) : \A q \in FoundAt(text, sub) : q <= p

\* text.count(sub): the occurrences from the left that do not overlap
RECURSIVE CountFrom(_, _, _)
CountFrom(text, sub, p) ==
    IF p + Len(sub) - 1 > Len(text) THEN 0
    ELSE IF StartsAt(text, p, sub)
    THEN 1 + CountFrom(text, sub, p + Len(sub))
    ELSE CountFrom(text, sub, p + 1)

\* text_to_ngram_dict(line): the n-grams of ngram_min words and more
NgramsOf(line) ==
    UNION {{SubSeq(line, p, p + n - 1) : p \in 1..(Len(line) - n + 1)} :
              n \in NGRAM_MIN..Len(line)}

\* duplicate_ngrams: the n-grams that stand at more than one place
DuplicateNgrams(line) ==
    {g \in NgramsOf(line) : Cardinality(FoundAt(line, g)) > 1}

\* set(ngram).issubset(x) for some x of longest_ngrams
Covered(gram, longest) ==
    \E k \in 1..Len(longest) :
        \A i \in 1..Len(gram) : \E j \in 1..Len(longest[k]) :
            gram[i] = longest[k][j]

\* the body of "for ngram in longest_ngrams": the flag goes after the last
\* occurrence of the phrase in new_line. Words are one blank apart, so the
\* distance is 1 when the two occurrences are adjacent, 3 or more when a
\* word or a flag stands between them, and negative when they overlap
MarkedLine(nl, line, repeated_sentence) ==
    LET n == Len(repeated_sentence)
        first_idx == Find(nl, repeated_sentence)
        second_idx == RFind(nl, repeated_sentence)
        flag == IF /\ first_idx # 0
                   /\ second_idx = first_idx + n
                   /\ CountFrom(line, repeated_sentence, 1) = 2
                   /\ \/ repeated_sentence[1] \in LowerStartWords
                      \/ repeated_sentence[n] \notin TerminalWords
                THEN POTENTIAL_DUPLICATE
                ELSE NOT_A_DUPLICATE
    IN  IF second_idx = 0 THEN nl
        ELSE SubSeq(nl, 1, second_idx + n - 1) \o <<flag>>
                 \o SubSeq(nl, second_idx + n, Len(nl))

NgInit ==
    /\ ng_line \in SeqUpTo(NgramWords, MaxNgramWords)
    /\ dupe_ngrams = {}
    /\ longest_ngrams = <<>>
    /\ new_line = <<>>
    /\ ng_pc = "start"

\* ngram_dict, duplicate_ngrams and dupe_ngrams of the line
FindDuplicateNgrams ==
    /\ ng_pc = "start"
    /\ dupe_ngrams' = DuplicateNgrams(ng_line)
    /\ new_line' = ng_line
    /\ ng_pc' = "select"
    /\ UNCHANGED <<ng_line, longest_ngrams>>
    /\ UNCHANGED ngRest

\* one iteration of "for ngram in dupe_ngrams": the longer n-grams come
\* first, n-grams of one length in the order the set yields them
SelectNgram ==
    /\ ng_pc = "select"
    /\ \E ngram \in dupe_ngrams :
          /\ \A g \in dupe_ngrams : Len(g) <= Len(ngram)
          /\ dupe_ngrams' = dupe_ngrams \ {ngram}
          /\ longest_ngrams' = IF Covered(ngram, longest_ngrams)
                               THEN longest_ngrams
                               ELSE Append(longest_ngrams, ngram)
    /\ UNCHANGED <<ng_line, new_line, ng_pc>>
    /\ UNCHANGED ngRest

\* the loop over dupe_ngrams is over
SelectDone ==
    /\ ng_pc = "select"
    /\ dupe_ngrams = {}
    /\ ng_pc' = "mark"
    /\ UNCHANGED <<ng_line, dupe_ngrams, longest_ngrams, new_line>>
    /\ UNCHANGED ngRest

\* one iteration of "for ngram in longest_ngrams"
MarkNgram ==
    /\ ng_pc = "mark"
    /\ longest_ngrams # <<>>
    /\ new_line' = MarkedLine(new_line, ng_line, Head(longest_ngrams))
    /\ longest_ngrams' = Tail(longest_ngrams)
    /\ UNCHANGED <<ng_line, dupe_ngrams, ng_pc>>
    /\ UNCHANGED ngRest

\* transcript.replace(line, new_line) and return
ReturnFlagged ==
    /\ ng_pc = "mark"
    /\ longest_ngrams = <<>>
    /\ ng_pc' = "done"
    /\ UNCHANGED <<ng_line, dupe_ngrams, longest_ngrams, new_line>>
    /\ UNCHANGED ngRest

NextNgram ==
    \/ FindDuplicateNgrams
    \/ SelectNgram
    \/ SelectDone
    \/ MarkNgram
    \/ ReturnFlagged

InitNgram == NgInit /\ NgRestIdle

SpecNgram == InitNgram /\ [][NextNgram]_vars

----------------------------------------------------------------------------
(* Properties of flag_duplicates                                           *)

\* the line begins with a phrase of two different words that is said twice
\* in a row and nowhere else
TwoWordRepeat ==
    /\ Len(ng_line) >= 4
    /\ ng_line[1] # ng_line[2]
    /\ FoundAt(ng_line, SubSeq(ng_line, 1, 2)) = {1, 3}

\* C21 (as claimed): a two-word phrase said twice in a row is flagged after
\* the repeat: as a potential duplicate when it does not end in terminal
\* punctuation, and as not a duplicate when it begins with a capital and
\* ends in terminal punctuation.
C21_TwoWordRepeatFlagged ==
    (ng_pc = "done" /\ TwoWordRepeat) =>
        /\ ng_line[2] \notin TerminalWords =>
              (Len(new_line) >= 5 /\ new_line[5] = POTENTIAL_DUPLICATE)
        /\ (ng_line[1] \notin LowerStartWords /\ ng_line[2] \in TerminalWords)
              => (Len(new_line) >= 5 /\ new_line[5] = NOT_A_DUPLICATE)

=============================================================================
